---- MODULE Spec2Model ----
(***************************************************************************)
(* Model of the rebalance bot: the rebalance loop of src/rebalance_loop.ts *)
(* (main timer loop, manual trigger, account-change callback) and the      *)
(* orchestration of one cycle in executeRebalance, running on the single   *)
(* threaded event loop of the worker.  Every await of the code is a point  *)
(* where another runner may take a step.  The supervisor of src/index.ts   *)
(* (worker restarts, graceful shutdown) on the main thread and the yield   *)
(* resolver of lib/simulate/index.ts and lib/yield-api.ts are modelled in  *)
(* specifications of their own.                                            *)
(***************************************************************************)
EXTENDS Integers, Sequences, FiniteSets, TLC

(* ---------------------------------------------------------------- bounds *)
MaxFunds == 2        \* total native units in the vault (positions + idle)
MaxCycles == 2       \* rebalance cycles started in one behaviour
MaxEvents == 1       \* account-change notifications in flight
MaxCallbacks == 1    \* account-change callbacks suspended at an await
MaxMarkets == 2      \* markets in one response of the yield API

(* ------------------------------------------------------------- constants *)
\* config.rebalanceLoopIntervalMs, in clock ticks.  The other delays of the
\* loop (sleep(12400), setImmediate) are shorter than a tick and end at any
\* later step.
RebalanceLoopInterval == 1
\* config.depositStrategyMinAmount (an operator's setting; the default 0
\* makes the check of the callback against it vacuous)
DepositStrategyMinAmount == 1
\* Number.MAX_SAFE_INTEGER (2^53 - 1); TLC integers are 32 bit wide, so the
\* sentinel is represented by the largest of them.  It is only compared.
MAX_SAFE_INTEGER == 2147483647

\* previousBalance before the first notification (null in the code)
NoBalance == -1

IDLE_ID == "idle"
NULL == "null"

\* strategyRegistry.strategies: one strategy per adapter behaviour
Strategies == <<"s1", "s2">>
StrategyIds == {Strategies[i] : i \in 1..Len(Strategies)}
StrategyType(id) ==
  CASE id = "s1" -> "driftEarn"
    [] id = "s2" -> "jupiterLend"
    [] id \in {"s3", "s4"} -> "kaminoVault"
    [] id = "s5" -> "kaminoMarket"
    [] OTHER -> "idle"

Main == 0
Callbacks == 1..MaxCallbacks
Runners == {Main} \cup Callbacks

VARIABLES
  shuttingDown,         \* isShuttingDown()
  positionValue,        \* on chain: position value of every strategy
  idleBalance,          \* on chain: amount of the vault's idle token account
  events,               \* account-change notifications not yet delivered
  sinceLastExecution,   \* Date.now() - lastExecutionTime, in ticks; the
                        \* code compares it with the interval only, so the
                        \* clock stops counting once the interval is reached
  loopCount, previousBalance,
  manualTriggerResolve, \* TRUE while the resolver of the wait is installed
  timerRemaining,       \* ticks until the timer of the main loop's wait expires
  pc,                   \* position of every runner
  prevAllocations, newAllocations,    \* arguments of executeRebalance
  operations,           \* operations derived by executeRebalance
  transactionIxs,       \* instructions built by the adapters
  nextIx,               \* loop index i of the submission loop
  txLog,                \* confirmed submissions of the runner's cycle
  rebalanceTotal, rebalanceErrorsTotal,   \* worker metrics of the loop
  txTotal,              \* worker metric tx_total{type="rebalance"} by status
  \* the supervisor of src/index.ts, on the main thread
  mainPc,               \* position of main()
  exitCode,             \* argument of process.exit, NotExited while running
  shutdownInProgress,
  rebalanceWorker,      \* ordinal of the worker held, NoWorker for null
  rebalanceWorkerRestarts,
  workersSpawned,       \* calls of new Worker(...) so far
  workersAlive,         \* workers created whose "exit" was not emitted yet
  exitHandlerPc,        \* position of the worker's "exit" handler
  restartDelayMs,       \* delayMs of the latest restart attempt
  restartSleep,         \* ms until sleep(delayMs) of the handler returns
  restartSlept,         \* ms the handler has slept so far
  stopMessageTo,        \* worker that was posted {type: "shutdown"}
  shutdownPc,           \* position of gracefulShutdown
  workerWait,           \* ms until the wait for the worker's exit times out
  loopWaitElapsed,      \* Date.now() - shutdownStart
  safetyTimeout,        \* ms until the safety timeout fires
  sinceSignal,          \* ms since the first shutdown signal
  loopsRunning,         \* loops of the main thread inside their while loop
  \* the yield resolver of lib/simulate/index.ts, on the worker
  yieldApi,             \* what the Dial API and the price lookup answer
  ourDepositUsd,        \* totalUsd computed from the vault's total value
  resolvedWinner,       \* return value of resolveYieldWinner
  rebalanceFallbackTotal, \* worker metric rebalance_fallback_total by reason
  yieldWinnerApy,       \* worker metric yield_winner_apy, NoGauge while unset
  yieldWinnerTvl,       \* worker metric yield_winner_tvl, NoGauge while unset
  \* the allocation engine of lib/simulate/optimizer, on the worker
  engineInputs,         \* strategyInputs passed to createYieldBasedAllocation
  engineIdle,           \* idle balance counted into totalPositionValue
  engineWinner,         \* winnerId passed to createYieldBasedAllocation
  enginePinned,         \* strategies pinned at their locked amount so far
  engineIterations,     \* passes of the equal-share computation so far
  enginePc,             \* position of createYieldBasedAllocation
  engineTargets,        \* the allocation vector it returns
  \* one call of sendAndConfirmOptimisedTx of lib/solana.ts
  txPc,                 \* position of the call
  txComputeUnitLimit,   \* parameter computeUnitLimit, 0 for null
  txInstructions,       \* the caller's instruction array
  txOptimalCUs,         \* optimalCUs
  txPriorityFee,        \* feeEstimate.priorityFeeEstimate, NoFee while unset
  txSteps,              \* steps of the call that ran, in order
  txFailed,             \* steps that failed, whatever the code did then
  txResult,             \* what the caller gets: a signature or an Error
  \* matching and selection of lib/yield-api.ts over any registry
  registryStrategies,   \* strategyRegistry.strategies
  fetchedMarkets,       \* the markets fetchYieldMarkets returned
  matchedMarkets,       \* what matchMarketsToStrategies returned
  selectedWinner,       \* id of the strategy selectWinner chose, or NULL
  \* the refresh loop of src/refresh_loop.ts, on the main thread
  refreshPc,            \* position of runRefreshLoop
  refreshStrategies,    \* strategyRegistry.strategies of the refresh loop
  refreshReceipts,      \* receipts read by the current iteration
  refreshIxs,           \* transactionIxs of the current iteration
  refreshSkipped,       \* strategies whose adapter logged an error and built nothing
  refreshNext,          \* i of the submission loop
  refreshLog,           \* batches submitted in the current iteration
  refreshLoopCount,     \* loopCount, loop_iterations_total{loop=refresh}
  refreshErrorsTotal,   \* loop_errors_total{loop=refresh}
  \* the fee harvest loop of src/harvest_fee_loop.ts, on the main thread
  harvestPc,            \* position of runHarvestFeeLoop
  harvestClock,         \* Date.now(), in polls of the loop
  harvestNow,           \* now, read at the top of the iteration
  lastHarvestTime,      \* lastExecutionTime of the harvest loop
  harvestLoopCount,     \* loopCount, loop_iterations_total{loop=harvest}
  harvestErrorsTotal,   \* loop_errors_total{loop=harvest}
  harvestSleep,         \* what is left of sleep(30000), NoTimer when not asleep
  harvestStarts,        \* now of every iteration whose harvest succeeded
  harvestOutcome        \* how the latest harvest ended

vars == <<shuttingDown, positionValue, idleBalance, events,
          sinceLastExecution, loopCount, previousBalance,
          manualTriggerResolve, timerRemaining, pc, prevAllocations,
          newAllocations, operations, transactionIxs, nextIx, txLog,
          rebalanceTotal, rebalanceErrorsTotal, txTotal,
          mainPc, exitCode, shutdownInProgress, rebalanceWorker,
          rebalanceWorkerRestarts, workersSpawned, workersAlive,
          exitHandlerPc,
          restartDelayMs, restartSleep, restartSlept, stopMessageTo,
          shutdownPc, workerWait, loopWaitElapsed, safetyTimeout,
          sinceSignal, loopsRunning,
          yieldApi, ourDepositUsd, resolvedWinner, rebalanceFallbackTotal,
          yieldWinnerApy, yieldWinnerTvl,
          engineInputs, engineIdle, engineWinner, enginePinned,
          engineIterations, enginePc, engineTargets,
          txPc, txComputeUnitLimit, txInstructions, txOptimalCUs,
          txPriorityFee, txSteps, txFailed, txResult,
          registryStrategies, fetchedMarkets, matchedMarkets,
          selectedWinner,
          refreshPc, refreshStrategies, refreshReceipts, refreshIxs,
          refreshSkipped, refreshNext, refreshLog, refreshLoopCount,
          refreshErrorsTotal,
          harvestPc, harvestClock, harvestNow, lastHarvestTime,
          harvestLoopCount, harvestErrorsTotal, harvestSleep, harvestStarts,
          harvestOutcome>>

\* the variables of the supervisor (except the shutdown flag, which every
\* thread has) and those of the yield resolver
supervisorVars == <<mainPc, exitCode, shutdownInProgress, rebalanceWorker,
                    rebalanceWorkerRestarts, workersSpawned, workersAlive,
          exitHandlerPc,
                    restartDelayMs, restartSleep, restartSlept,
                    stopMessageTo, shutdownPc, workerWait, loopWaitElapsed,
                    safetyTimeout, sinceSignal, loopsRunning>>
resolverVars == <<yieldApi, ourDepositUsd, resolvedWinner,
                  rebalanceFallbackTotal, yieldWinnerApy, yieldWinnerTvl>>
engineVars == <<engineInputs, engineIdle, engineWinner, enginePinned,
                engineIterations, enginePc, engineTargets>>
\* the variables of one transaction submission, and those of everything
\* that runs beside the rebalance worker's loop and the supervisor
txVars == <<txPc, txComputeUnitLimit, txInstructions, txOptimalCUs,
            txPriorityFee, txSteps, txFailed, txResult>>
matchVars == <<registryStrategies, fetchedMarkets, matchedMarkets,
               selectedWinner>>
refreshVars == <<refreshPc, refreshStrategies, refreshReceipts, refreshIxs,
                 refreshSkipped, refreshNext, refreshLog, refreshLoopCount,
                 refreshErrorsTotal>>
harvestVars == <<harvestPc, harvestClock, harvestNow, lastHarvestTime,
                 harvestLoopCount, harvestErrorsTotal, harvestSleep,
                 harvestStarts, harvestOutcome>>
serviceVars == <<txVars, matchVars, refreshVars, harvestVars>>

(* --------------------------------------------------------------- helpers *)
RECURSIVE SumSeq(_)
SumSeq(s) == IF s = <<>> THEN 0 ELSE Head(s) + SumSeq(Tail(s))

RECURSIVE SumSet(_, _)
SumSet(f, S) ==
  IF S = {} THEN 0
  ELSE LET x == CHOOSE y \in S : TRUE IN f[x] + SumSet(f, S \ {x})

Min(a, b) == IF a < b THEN a ELSE b

MapSeq(s, Op(_)) == [i \in 1..Len(s) |-> Op(s[i])]

TotalFunds == SumSet(positionValue, StrategyIds) + idleBalance

(* ----------------------------------------------------- allocation engine *)
\* Allocation of lib/simulate/types: one entry of an allocation vector
Allocation(id, value) ==
  [strategyId |-> id, strategyType |-> StrategyType(id), positionValue |-> value]

\* StrategyInput of lib/simulate/optimizer
StrategyInput(id, value, liquidity) ==
  [strategyId |-> id, positionValue |-> value,
   availableWithdrawableLiquidity |-> liquidity]

\* the amount a strategy cannot release in this cycle
Locked(inp) ==
  IF inp.availableWithdrawableLiquidity < inp.positionValue
  THEN inp.positionValue - inp.availableWithdrawableLiquidity
  ELSE 0

LockedSum(inputs, P) == SumSet([i \in P |-> Locked(inputs[i])], P)

EqualShare(total, inputs, P) ==
  LET free == (1..Len(inputs)) \ P
  IN IF free = {} THEN 0
     ELSE (total - LockedSum(inputs, P)) \div Cardinality(free)

\* the strategies pinned at their locked amount: fixed point of the
\* equal-share computation
RECURSIVE PinnedSet(_, _, _)
PinnedSet(total, inputs, P) ==
  LET share == EqualShare(total, inputs, P)
      more == {i \in (1..Len(inputs)) \ P : Locked(inputs[i]) > share}
  IN IF more = {} THEN P ELSE PinnedSet(total, inputs, P \cup more)

\* faulty variant of EqualWeightTargets: the remainder of the division is
\* dropped
EqualWeightTargets_NoRemainder(total, inputs) ==
  LET P == PinnedSet(total, inputs, {})
  IN [i \in 1..Len(inputs) |->
        IF i \in P THEN Locked(inputs[i]) ELSE EqualShare(total, inputs, P)]

\* faulty variant of EqualWeightTargets: the remainder of the division goes
\* to the last strategy of the pool
EqualWeightTargets_RemainderLast(total, inputs) ==
  LET P == PinnedSet(total, inputs, {})
      free == (1..Len(inputs)) \ P
      share == EqualShare(total, inputs, P)
      rest == IF free = {} THEN 0
              ELSE (total - LockedSum(inputs, P)) - share * Cardinality(free)
      last == IF free = {} THEN 0 ELSE CHOOSE i \in free : \A j \in free : i >= j
  IN [i \in 1..Len(inputs) |->
        IF i \in P THEN Locked(inputs[i])
        ELSE IF i = last THEN share + rest ELSE share]

\* faulty variant of EqualWeightTargets: the locked amounts are ignored
EqualWeightTargets_IgnoresLocks(total, inputs) ==
  [i \in 1..Len(inputs) |->
     (total \div Len(inputs)) + (IF i = 1 THEN total % Len(inputs) ELSE 0)]

\* equal-weight policy: the strategy part of the target vector
EqualWeightTargets(total, inputs) ==
  LET P == PinnedSet(total, inputs, {})
      free == (1..Len(inputs)) \ P
      share == EqualShare(total, inputs, P)
      rest == IF free = {} THEN 0
              ELSE (total - LockedSum(inputs, P)) - share * Cardinality(free)
      first == IF free = {} THEN 0 ELSE CHOOSE i \in free : \A j \in free : i <= j
  IN [i \in 1..Len(inputs) |->
        IF i \in P THEN Locked(inputs[i])
        ELSE IF i = first THEN share + rest ELSE share]

\* faulty variant of WinnerTargets: the liquidity of the other strategies is
\* ignored
WinnerTargets_NoCaps(total, inputs, winnerId) ==
  [i \in 1..Len(inputs) |->
     IF inputs[i].strategyId = winnerId THEN total ELSE 0]

\* yield policy: everything to the winner except what stays locked
WinnerTargets(total, inputs, winnerId) ==
  LET others == {i \in 1..Len(inputs) : inputs[i].strategyId # winnerId}
  IN [i \in 1..Len(inputs) |->
        IF i \in others THEN Locked(inputs[i])
        ELSE total - LockedSum(inputs, others)]

\* faulty variant of createYieldBasedAllocation: only what the strategies
\* hold is distributed, the idle balance stays idle
createYieldBasedAllocation_KeepsIdle(total, inputs, winnerId) ==
  LET held == SumSeq(MapSeq(inputs, LAMBDA inp : inp.positionValue))
      targets == IF winnerId = NULL THEN EqualWeightTargets(held, inputs)
                 ELSE WinnerTargets(held, inputs, winnerId)
  IN [i \in 1..Len(inputs) |-> Allocation(inputs[i].strategyId, targets[i])]
       \o <<Allocation(IDLE_ID, total - held)>>

\* the target of the idle balance is 0 under both policies
createYieldBasedAllocation(total, inputs, winnerId) ==
  LET targets == IF winnerId = NULL THEN EqualWeightTargets(total, inputs)
                 ELSE WinnerTargets(total, inputs, winnerId)
  IN [i \in 1..Len(inputs) |-> Allocation(inputs[i].strategyId, targets[i])]
       \o <<Allocation(IDLE_ID, 0)>>

\* the strategies a yield market can be matched to
WinnerCandidates ==
  {id \in StrategyIds : StrategyType(id) \in {"kaminoVault", "jupiterLend"}}

\* getCurrentAndTargetAllocation: the vectors computed from the positions
\* and the idle balance read from the chain, for a resolved winner
CurrentAllocation(pos, idle) ==
  [i \in 1..Len(Strategies) |-> Allocation(Strategies[i], pos[Strategies[i]])]
    \o <<Allocation(IDLE_ID, idle)>>

TargetAllocation(pos, idle, winnerId) ==
  LET prev == CurrentAllocation(pos, idle)
      totalPositionValue == SumSeq(MapSeq(prev, LAMBDA a : a.positionValue))
      strategyInputs ==
        [i \in 1..Len(Strategies) |->
           StrategyInput(Strategies[i], pos[Strategies[i]], MAX_SAFE_INTEGER)]
  IN createYieldBasedAllocation(totalPositionValue, strategyInputs, winnerId)

(* ------------------------------------------------------ executeRebalance *)
\* faulty variant of AdapterKinds: the switch has a case for the idle entry
AdapterKinds_WithIdle ==
  {"kaminoMarket", "driftEarn", "jupiterLend", "kaminoVault", "idle"}

\* the kinds the switch of executeRebalance has an adapter for
AdapterKinds == {"kaminoMarket", "driftEarn", "jupiterLend", "kaminoVault"}

depositDelta(prev, new) ==
  [idx \in 1..Len(new) |->
     [strategyId |-> new[idx].strategyId,
      strategyType |-> new[idx].strategyType,
      target |-> new[idx].positionValue,
      delta |-> new[idx].positionValue - prev[idx].positionValue]]

\* faulty variant of IsWithdrawDelta: a zero delta counts as a withdrawal
IsWithdrawDelta_Leq(a) == a.delta <= 0

IsWithdrawDelta(a) == a.delta < 0
IsDepositDelta(a) == a.delta > 0

Withdrawals(prev, new) == SelectSeq(depositDelta(prev, new), IsWithdrawDelta)
Deposits(prev, new) == SelectSeq(depositDelta(prev, new), IsDepositDelta)

nWithdraws(prev, new) == Len(Withdrawals(prev, new))

\* faulty variant of withdrawAmount: a full exit withdraws the delta, not
\* the sentinel
withdrawAmount_AlwaysDelta(a) == 0 - a.delta

withdrawAmount(a) == IF a.target = 0 THEN MAX_SAFE_INTEGER ELSE 0 - a.delta

depositAmount(a, n) == a.delta - n

Operation(kind, a, amount) ==
  [kind |-> kind, strategyId |-> a.strategyId, strategyType |-> a.strategyType,
   amount |-> amount]

\* faulty variant of DeriveOperations: the deposit loop runs first
DeriveOperations_DepositsFirst(prev, new) ==
  LET w == SelectSeq(depositDelta(prev, new), IsWithdrawDelta)
      d == SelectSeq(depositDelta(prev, new), IsDepositDelta)
      n == Len(w)
  IN [i \in 1..Len(d) |-> Operation("deposit", d[i], depositAmount(d[i], n))]
       \o [i \in 1..Len(w) |-> Operation("withdraw", w[i], withdrawAmount(w[i]))]

\* the operations in the order the two loops of executeRebalance derive them
DeriveOperations(prev, new) ==
  LET w == Withdrawals(prev, new)
      d == Deposits(prev, new)
      n == nWithdraws(prev, new)
  IN [i \in 1..Len(w) |-> Operation("withdraw", w[i], withdrawAmount(w[i]))]
       \o [i \in 1..Len(d) |-> Operation("deposit", d[i], depositAmount(d[i], n))]

\* the adapters that catch their own errors and skip the operation
\* (lib/drift.ts; the spec says the same of every adapter)
SkippingKinds == {"driftEarn"}

\* the operations whose adapter may skip them
MaySkip(ops) == {i \in 1..Len(ops) : ops[i].strategyType \in SkippingKinds}

\* faulty variant of BuildInstructions: after an operation that is skipped no
\* further instruction is built
RECURSIVE BuildInstructions_StopsAtSkip(_, _, _)
BuildInstructions_StopsAtSkip(ops, failed, i) ==
  IF i > Len(ops) THEN <<>>
  ELSE IF ops[i].strategyType \in AdapterKinds /\ i \notin failed
       THEN <<ops[i]>> \o BuildInstructions_StopsAtSkip(ops, failed, i + 1)
       ELSE <<>>

\* an adapter pushes its instruction unless it caught an error of its own;
\* the default branch of the switch pushes nothing
RECURSIVE BuildInstructions(_, _, _)
BuildInstructions(ops, failed, i) ==
  IF i > Len(ops) THEN <<>>
  ELSE (IF ops[i].strategyType \in AdapterKinds /\ i \notin failed
        THEN <<ops[i]>> ELSE <<>>) \o BuildInstructions(ops, failed, i + 1)

(* ------------------------------------------- supervisor: constants, state *)
\* const MAX_WORKER_RESTARTS
MAX_WORKER_RESTARTS == 3
\* the base of delayMs in the worker's "exit" handler
BaseDelayMs == 1000
\* the safety timeout of gracefulShutdown
SafetyTimeoutMs == 15000
\* the timeout of the wait for the worker's exit
WorkerWaitMs == 10000
\* maxWaitMs of the wait for the other loops
maxWaitMs == 10000
\* the period of the poll of that wait; every other delay of the supervisor
\* is a multiple of it, and the clock of the main thread advances by it
TickMs == 500

NotExited == -1      \* exitCode while the process runs
NoWorker == 0        \* rebalanceWorker === null
NoTimer == -1        \* a timer that is not armed

\* the loops main() starts on the main thread
Loops == {"refresh", "claimKmarket", "claimKvault", "harvest"}

\* the main thread after main() has returned and before any signal
SupervisorStarted ==
  /\ mainPc = "done"
  /\ exitCode = NotExited
  /\ shutdownInProgress = FALSE
  /\ rebalanceWorker = 1
  /\ rebalanceWorkerRestarts = 0
  /\ workersSpawned = 1
  /\ workersAlive = {1}
  /\ exitHandlerPc = "idle"
  /\ restartDelayMs = 0
  /\ restartSleep = NoTimer
  /\ restartSlept = 0
  /\ stopMessageTo = NoWorker
  /\ shutdownPc = "none"
  /\ workerWait = NoTimer
  /\ loopWaitElapsed = 0
  /\ safetyTimeout = NoTimer
  /\ sinceSignal = 0
  /\ loopsRunning = Loops

(* --------------------------------------------------- resolver: idle state *)
FallbackReasons == {"no_match", "all_filtered", "api_fail"}

\* resolveYieldWinner has not been called in this cycle
Pending == "pending"

NoYieldApi == [fetch |-> "ok", markets |-> <<>>, price |-> "ok"]

\* a gauge of the worker's metrics that was never set
NoGauge == -1

ResolverIdle ==
  /\ yieldApi = NoYieldApi
  /\ ourDepositUsd = 0
  /\ resolvedWinner = Pending
  /\ rebalanceFallbackTotal = [reason \in FallbackReasons |-> 0]
  /\ yieldWinnerApy = NoGauge
  /\ yieldWinnerTvl = NoGauge

(* ------------------------------------------ allocation engine: idle state *)
\* createYieldBasedAllocation has not been called
EngineIdle ==
  /\ engineInputs = <<>>
  /\ engineIdle = 0
  /\ engineWinner = NULL
  /\ enginePinned = {}
  /\ engineIterations = 0
  /\ enginePc = "idle"
  /\ engineTargets = <<>>

(* ------------------------------------------- transaction submission: idle *)
\* feeEstimate before the fee-estimation endpoint was asked
NoFee == -1

\* sendAndConfirmOptimisedTx has not been called
TxIdle ==
  /\ txPc = "idle"
  /\ txComputeUnitLimit = 0
  /\ txInstructions = <<>>
  /\ txOptimalCUs = 0
  /\ txPriorityFee = NoFee
  /\ txSteps = <<>>
  /\ txFailed = {}
  /\ txResult = "none"

\* matchMarketsToStrategies has not been called
MatchIdle ==
  /\ registryStrategies = <<>>
  /\ fetchedMarkets = <<>>
  /\ matchedMarkets = <<>>
  /\ selectedWinner = NULL

\* the refresh loop is not enabled
RefreshIdle ==
  /\ refreshPc = "off"
  /\ refreshStrategies = <<>>
  /\ refreshReceipts = <<>>
  /\ refreshIxs = <<>>
  /\ refreshSkipped = {}
  /\ refreshNext = 0
  /\ refreshLog = <<>>
  /\ refreshLoopCount = 0
  /\ refreshErrorsTotal = 0

\* the fee harvest loop is not enabled
HarvestIdle ==
  /\ harvestPc = "off"
  /\ harvestClock = 0
  /\ harvestNow = 0
  /\ lastHarvestTime = 0
  /\ harvestLoopCount = 0
  /\ harvestErrorsTotal = 0
  /\ harvestSleep = NoTimer
  /\ harvestStarts = <<>>
  /\ harvestOutcome = "none"

\* nothing beside the rebalance worker and the supervisor is running
ServicesIdle == TxIdle /\ MatchIdle /\ RefreshIdle /\ HarvestIdle

(* ------------------------------------------------------------------ Init *)
Triggers == {"scheduled", "manual", "deposit"}

NoCycle == [r \in Runners |-> <<>>]

Init ==
  /\ shuttingDown = FALSE
  /\ positionValue \in [StrategyIds -> 0..MaxFunds]
  /\ idleBalance \in 0..MaxFunds
  /\ TotalFunds <= MaxFunds
  /\ events = <<>>
  /\ sinceLastExecution = RebalanceLoopInterval
  /\ loopCount = 0
  /\ previousBalance = NoBalance
  /\ manualTriggerResolve = FALSE
  /\ timerRemaining = 0
  /\ pc = [r \in Runners |-> IF r = Main THEN "check" ELSE "free"]
  /\ prevAllocations = NoCycle
  /\ newAllocations = NoCycle
  /\ operations = NoCycle
  /\ transactionIxs = NoCycle
  /\ nextIx = [r \in Runners |-> 0]
  /\ txLog = NoCycle
  /\ rebalanceTotal = [t \in Triggers |-> 0]
  /\ rebalanceErrorsTotal = 0
  /\ txTotal = [status \in {"success", "error"} |-> 0]
  /\ SupervisorStarted
  /\ ResolverIdle
  /\ EngineIdle
  /\ ServicesIdle

(* ----------------------------------------------------------- environment *)
chainVars == <<positionValue, idleBalance, events>>
loopVars == <<sinceLastExecution, loopCount>>
cycleVars == <<prevAllocations, newAllocations, operations, transactionIxs,
               nextIx, txLog>>
metricVars == <<rebalanceTotal, rebalanceErrorsTotal, txTotal>>

\* the clock advances by one tick; timers never fire early but may fire late
Tick ==
  /\ sinceLastExecution < RebalanceLoopInterval \/ timerRemaining > 0
  /\ sinceLastExecution' = Min(sinceLastExecution + 1, RebalanceLoopInterval)
  /\ timerRemaining' = IF timerRemaining > 0 THEN timerRemaining - 1 ELSE 0
  /\ UNCHANGED <<shuttingDown, chainVars, loopCount, previousBalance,
                 manualTriggerResolve, pc, cycleVars, metricVars>>
  /\ UNCHANGED <<supervisorVars, resolverVars, engineVars,
                 serviceVars>>

\* a user deposits one unit into the vault: the idle account changes
UserDeposit ==
  /\ TotalFunds < MaxFunds
  /\ Len(events) < MaxEvents
  /\ idleBalance' = idleBalance + 1
  /\ events' = Append(events, idleBalance + 1)
  /\ UNCHANGED <<shuttingDown, positionValue, loopVars, previousBalance,
                 manualTriggerResolve, timerRemaining, pc, cycleVars, metricVars>>
  /\ UNCHANGED <<supervisorVars, resolverVars, engineVars,
                 serviceVars>>

\* utils: the process-wide shutdown flag is set
Shutdown ==
  /\ ~shuttingDown
  /\ shuttingDown' = TRUE
  /\ UNCHANGED <<chainVars, loopVars, previousBalance,
                 manualTriggerResolve, timerRemaining, pc, cycleVars, metricVars>>
  /\ UNCHANGED <<supervisorVars, resolverVars, engineVars,
                 serviceVars>>

(* ------------------------------------------------------- cycle of a runner *)
CyclesStarted == rebalanceTotal["scheduled"] + rebalanceTotal["manual"]
                   + rebalanceTotal["deposit"]

\* workerMetrics.inc("rebalance_total", {trigger}) and the call of
\* getCurrentAndTargetAllocation, which suspends the runner
StartCycle(r, trigger) ==
  /\ CyclesStarted < MaxCycles
  /\ rebalanceTotal' = [rebalanceTotal EXCEPT ![trigger] = @ + 1]
  /\ pc' = [pc EXCEPT ![r] = "alloc"]
  /\ UNCHANGED <<cycleVars, rebalanceErrorsTotal, txTotal>>

\* the locals of executeRebalance and of its caller go out of scope
EndCycle(r) ==
  /\ txLog' = [txLog EXCEPT ![r] = <<>>]
  /\ prevAllocations' = [prevAllocations EXCEPT ![r] = <<>>]
  /\ newAllocations' = [newAllocations EXCEPT ![r] = <<>>]
  /\ operations' = [operations EXCEPT ![r] = <<>>]
  /\ transactionIxs' = [transactionIxs EXCEPT ![r] = <<>>]
  /\ nextIx' = [nextIx EXCEPT ![r] = 0]

\* faulty variant of CatchError: the failure is recorded as an execution
CatchError_RecordsExecution(r) ==
  /\ rebalanceErrorsTotal' = rebalanceErrorsTotal + 1
  /\ EndCycle(r)
  /\ pc' = [pc EXCEPT ![r] = IF r = Main THEN "errsleep" ELSE "free"]
  /\ sinceLastExecution' = 0
  /\ loopCount' = loopCount + 1
  /\ UNCHANGED <<rebalanceTotal, timerRemaining>>

\* the catch block of the caller: the main loop sleeps 12400 ms, the
\* callback just returns
CatchError(r) ==
  /\ rebalanceErrorsTotal' = rebalanceErrorsTotal + 1
  /\ EndCycle(r)
  /\ pc' = [pc EXCEPT ![r] = IF r = Main THEN "errsleep" ELSE "free"]
  /\ UNCHANGED <<loopVars, rebalanceTotal, timerRemaining>>

\* executeRebalance up to its submission loop: the deltas, the two loops
\* over them and the adapters, some of which may skip their operation
executeRebalance(r, prev, new) ==
  LET ops == DeriveOperations(prev, new)
  IN /\ prevAllocations' = [prevAllocations EXCEPT ![r] = prev]
     /\ newAllocations' = [newAllocations EXCEPT ![r] = new]
     /\ operations' = [operations EXCEPT ![r] = ops]
     /\ \E failed \in SUBSET MaySkip(ops) :
          transactionIxs' =
            [transactionIxs EXCEPT ![r] = BuildInstructions(ops, failed, 1)]
     /\ nextIx' = [nextIx EXCEPT ![r] = 0]
     /\ pc' = [pc EXCEPT ![r] = "exec"]
     /\ UNCHANGED <<shuttingDown, chainVars, loopVars, previousBalance,
                    manualTriggerResolve, timerRemaining, txLog, metricVars>>
     /\ UNCHANGED <<supervisorVars, resolverVars, engineVars,
                 serviceVars>>

\* getCurrentAndTargetAllocation returns the current and target vectors and
\* the caller passes them to executeRebalance.  Nothing read while the
\* instructions are built is written by another runner.
PrepareCycle(r) ==
  /\ pc[r] = "alloc"
  /\ \E winnerId \in WinnerCandidates \cup {NULL} :
       executeRebalance(r, CurrentAllocation(positionValue, idleBalance),
                        TargetAllocation(positionValue, idleBalance, winnerId))

\* getCurrentAndTargetAllocation or getAddressLookupTableAccounts throws (a
\* read of the chain fails) before anything is submitted
PrepareCycleFails(r) ==
  /\ pc[r] = "alloc"
  /\ CatchError(r)
  /\ UNCHANGED <<shuttingDown, chainVars, previousBalance,
                 manualTriggerResolve, txTotal>>
  /\ UNCHANGED <<supervisorVars, resolverVars, engineVars,
                 serviceVars>>

\* the vault program: what a confirmed instruction moves
ChainAccepts(ix) ==
  IF ix.kind = "withdraw"
  THEN ix.amount = MAX_SAFE_INTEGER \/ ix.amount <= positionValue[ix.strategyId]
  ELSE ix.amount >= 0 /\ ix.amount <= idleBalance

Moved(ix) ==
  IF ix.kind = "withdraw" /\ ix.amount = MAX_SAFE_INTEGER
  THEN positionValue[ix.strategyId]
  ELSE ix.amount

LogEntry(ix, i, moved) ==
  [kind |-> ix.kind, strategyId |-> ix.strategyId, amount |-> ix.amount,
   index |-> i, moved |-> moved]

\* one pass of the submission loop: sendAndConfirmOptimisedTx returns a
\* signature, the instruction is applied on chain
SubmitBatch(r) ==
  /\ pc[r] = "exec"
  /\ nextIx[r] < Len(transactionIxs[r])
  /\ LET ix == transactionIxs[r][nextIx[r] + 1]
         moved == Moved(ix)
         idle == IF ix.kind = "withdraw" THEN idleBalance + moved
                 ELSE idleBalance - moved
     IN /\ ChainAccepts(ix)
        /\ moved # 0 => Len(events) < MaxEvents
        /\ positionValue' =
             [positionValue EXCEPT ![ix.strategyId] =
                IF ix.kind = "withdraw" THEN @ - moved ELSE @ + moved]
        /\ idleBalance' = idle
        /\ events' = IF moved # 0 THEN Append(events, idle) ELSE events
        /\ txLog' = [txLog EXCEPT ![r] =
                       Append(@, LogEntry(ix, nextIx[r], moved))]
  /\ nextIx' = [nextIx EXCEPT ![r] = @ + 1]
  /\ txTotal' = [txTotal EXCEPT !["success"] = @ + 1]
  /\ UNCHANGED <<shuttingDown, loopVars, previousBalance,
                 manualTriggerResolve, timerRemaining, pc, prevAllocations,
                 newAllocations, operations, transactionIxs,
                 rebalanceTotal, rebalanceErrorsTotal>>
  /\ UNCHANGED <<supervisorVars, resolverVars, engineVars,
                 serviceVars>>

\* faulty variant of SubmitBatchFails: the error is counted but swallowed and
\* the loop goes on with the next batch
SubmitBatchFails_Swallows(r) ==
  /\ pc[r] = "exec"
  /\ nextIx[r] < Len(transactionIxs[r])
  /\ txTotal' = [txTotal EXCEPT !["error"] = @ + 1]
  /\ nextIx' = [nextIx EXCEPT ![r] = @ + 1]
  /\ UNCHANGED <<shuttingDown, chainVars, loopVars, previousBalance,
                 manualTriggerResolve, timerRemaining, pc, prevAllocations,
                 newAllocations, operations, transactionIxs, txLog,
                 rebalanceTotal, rebalanceErrorsTotal>>
  /\ UNCHANGED <<supervisorVars, resolverVars, engineVars,
                 serviceVars>>

\* one pass of the submission loop: sendAndConfirmOptimisedTx throws (the
\* network fails or the chain rejects the instruction); executeRebalance
\* rethrows to its caller
SubmitBatchFails(r) ==
  /\ pc[r] = "exec"
  /\ nextIx[r] < Len(transactionIxs[r])
  /\ txTotal' = [txTotal EXCEPT !["error"] = @ + 1]
  /\ CatchError(r)
  /\ UNCHANGED <<shuttingDown, chainVars, previousBalance,
                 manualTriggerResolve>>
  /\ UNCHANGED <<supervisorVars, resolverVars, engineVars,
                 serviceVars>>

\* executeRebalance returns: the caller records the execution
FinishCycle(r) ==
  /\ pc[r] = "exec"
  /\ nextIx[r] >= Len(transactionIxs[r])
  /\ sinceLastExecution' = 0
  /\ loopCount' = loopCount + 1
  /\ pc' = [pc EXCEPT ![r] = IF r = Main THEN "check" ELSE "free"]
  /\ EndCycle(r)
  /\ UNCHANGED <<shuttingDown, chainVars, previousBalance,
                 manualTriggerResolve, timerRemaining, metricVars>>
  /\ UNCHANGED <<supervisorVars, resolverVars, engineVars,
                 serviceVars>>

(* -------------------------------------------------------------- main loop *)
\* faulty variant of isOnCooldown: the comparison is inverted
isOnCooldown_Inverted == sinceLastExecution >= RebalanceLoopInterval

isOnCooldown == sinceLastExecution < RebalanceLoopInterval

\* the loop ends and removes the account-change listener
ExitLoop ==
  /\ pc' = [pc EXCEPT ![Main] = "exited"]
  /\ UNCHANGED <<cycleVars, metricVars>>

\* top of the while loop: leave, wait for the rest of the interval, or
\* execute at once
MainCheck ==
  /\ pc[Main] = "check"
  /\ LET remaining == RebalanceLoopInterval - sinceLastExecution
     IN \/ /\ shuttingDown
           /\ ExitLoop
           /\ UNCHANGED <<manualTriggerResolve, timerRemaining>>
        \/ /\ ~shuttingDown
           /\ remaining > 0
           /\ pc' = [pc EXCEPT ![Main] = "wait"]
           /\ timerRemaining' = remaining
           /\ manualTriggerResolve' = TRUE
           /\ UNCHANGED <<cycleVars, metricVars>>
        \/ /\ ~shuttingDown
           /\ remaining <= 0
           /\ StartCycle(Main, "scheduled")
           /\ UNCHANGED <<manualTriggerResolve, timerRemaining>>
  /\ UNCHANGED <<shuttingDown, chainVars, loopVars, previousBalance>>
  /\ UNCHANGED <<supervisorVars, resolverVars, engineVars,
                 serviceVars>>

\* faulty variant of Wake: the resolver stays installed and the timer armed
Wake_KeepsResolver(trigger) ==
  /\ UNCHANGED <<manualTriggerResolve, timerRemaining>>
  /\ \/ shuttingDown /\ ExitLoop
     \/ ~shuttingDown /\ StartCycle(Main, trigger)
  /\ UNCHANGED <<shuttingDown, chainVars, loopVars, previousBalance>>
  /\ UNCHANGED <<supervisorVars, resolverVars, engineVars,
                 serviceVars>>

\* the wait is resolved and its timer is spent or cleared; the loop leaves
\* on shutdown or starts a cycle
Wake(trigger) ==
  /\ manualTriggerResolve' = FALSE
  /\ timerRemaining' = 0
  /\ \/ shuttingDown /\ ExitLoop
     \/ ~shuttingDown /\ StartCycle(Main, trigger)
  /\ UNCHANGED <<shuttingDown, chainVars, loopVars, previousBalance>>
  /\ UNCHANGED <<supervisorVars, resolverVars, engineVars,
                 serviceVars>>

\* the timer of sleepUntilNextRunOrTrigger expires
TimerFires ==
  /\ pc[Main] = "wait"
  /\ timerRemaining = 0
  /\ Wake("scheduled")

\* faulty variant of triggerManualRebalance: the trigger acts whether or not
\* a wait is pending
triggerManualRebalance_Unguarded == Wake("manual")

\* triggerManualRebalance: resolves the wait if one is pending, else nothing
triggerManualRebalance ==
  /\ \/ /\ manualTriggerResolve
        /\ Wake("manual")
     \/ /\ ~manualTriggerResolve
        /\ UNCHANGED <<shuttingDown, chainVars, loopVars, previousBalance,
                       manualTriggerResolve, timerRemaining, pc, cycleVars, metricVars>>
        /\ UNCHANGED <<supervisorVars, resolverVars, engineVars,
                 serviceVars>>

\* faulty variant of ErrorSleepDone: the loop ends after a failed cycle
ErrorSleepDone_EndsLoop ==
  /\ pc[Main] = "errsleep"
  /\ pc' = [pc EXCEPT ![Main] = "exited"]
  /\ UNCHANGED <<shuttingDown, chainVars, loopVars, previousBalance,
                 manualTriggerResolve, timerRemaining, cycleVars, metricVars>>
  /\ UNCHANGED <<supervisorVars, resolverVars, engineVars,
                 serviceVars>>

\* sleep(12400) of the catch block returns
ErrorSleepDone ==
  /\ pc[Main] = "errsleep"
  /\ pc' = [pc EXCEPT ![Main] = "check"]
  /\ UNCHANGED <<shuttingDown, chainVars, loopVars, previousBalance,
                 manualTriggerResolve, timerRemaining, cycleVars, metricVars>>
  /\ UNCHANGED <<supervisorVars, resolverVars, engineVars,
                 serviceVars>>

(* ------------------------------------------------ account-change callback *)
\* faulty variant of the callback: the first notification after subscribing
\* is compared with the unset previous balance and counts as an increase
onAccountChange_FirstEventCounts ==
  /\ pc[Main] # "exited"
  /\ events # <<>>
  /\ LET currentBalance == Head(events)
         balanceIncreased ==
           currentBalance > previousBalance
     IN /\ previousBalance' = currentBalance
        /\ events' = Tail(events)
        /\ IF balanceIncreased /\ ~isOnCooldown
              /\ ~(currentBalance <= DepositStrategyMinAmount)
           THEN \E c \in Callbacks :
                  /\ pc[c] = "free"
                  /\ \A d \in Callbacks : pc[d] = "free" => c <= d
                  /\ StartCycle(c, "deposit")
           ELSE UNCHANGED <<pc, cycleVars, metricVars>>
  /\ UNCHANGED <<shuttingDown, positionValue, idleBalance, loopVars,
                 manualTriggerResolve, timerRemaining>>
  /\ UNCHANGED <<supervisorVars, resolverVars, engineVars,
                 serviceVars>>

\* the callback of onAccountChange up to its first await; the listener is
\* installed before the loop starts and removed when it ends
onAccountChange ==
  /\ pc[Main] # "exited"
  /\ events # <<>>
  /\ LET currentBalance == Head(events)
         balanceIncreased ==
           previousBalance # NoBalance /\ currentBalance > previousBalance
     IN /\ previousBalance' = currentBalance
        /\ events' = Tail(events)
        /\ IF balanceIncreased /\ ~isOnCooldown
              /\ ~(currentBalance <= DepositStrategyMinAmount)
           THEN \E c \in Callbacks :
                  /\ pc[c] = "free"
                  /\ \A d \in Callbacks : pc[d] = "free" => c <= d
                  /\ StartCycle(c, "deposit")
           ELSE UNCHANGED <<pc, cycleVars, metricVars>>
  /\ UNCHANGED <<shuttingDown, positionValue, idleBalance, loopVars,
                 manualTriggerResolve, timerRemaining>>
  /\ UNCHANGED <<supervisorVars, resolverVars, engineVars,
                 serviceVars>>

(* ------------------------------------------------------------------ Next *)
Next ==
  \/ Tick
  \/ UserDeposit
  \/ Shutdown
  \/ MainCheck
  \/ TimerFires
  \/ triggerManualRebalance
  \/ ErrorSleepDone
  \/ onAccountChange
  \/ \E r \in Runners : PrepareCycle(r)
  \/ \E r \in Runners : PrepareCycleFails(r)
  \/ \E r \in Runners : SubmitBatch(r)
  \/ \E r \in Runners : SubmitBatchFails(r)
  \/ \E r \in Runners : FinishCycle(r)

Spec == Init /\ [][Next]_vars

(* ------------------------------------------- executeRebalance on its own *)
\* every allocation vector over the registry with values up to MaxFunds
AllocationVectors ==
  {CurrentAllocation(pos, idle) :
     pos \in [StrategyIds -> 0..MaxFunds], idle \in 0..MaxFunds}

\* executeRebalance is called with an arbitrary pair of vectors
CallExecuteRebalance ==
  /\ pc[Main] = "check"
  /\ \E prev \in AllocationVectors, new \in AllocationVectors :
       executeRebalance(Main, prev, new)

NextExec == CallExecuteRebalance

SpecExec == Init /\ [][NextExec]_vars

(* ------------------------------------ account-change callback on its own *)
\* the main loop waits after its first successful cycle, at any point of
\* the interval, with any balance seen before, and one notification is due,
\* of any balance
InitCallback ==
  /\ shuttingDown = FALSE
  /\ positionValue \in [StrategyIds -> 0..MaxFunds]
  /\ idleBalance \in 0..MaxFunds
  /\ TotalFunds <= MaxFunds
  /\ events \in {<<balance>> : balance \in 0..MaxFunds}
  /\ sinceLastExecution \in 0..RebalanceLoopInterval
  /\ loopCount = 1
  /\ previousBalance \in {NoBalance} \cup (0..MaxFunds)
  /\ manualTriggerResolve = TRUE
  /\ timerRemaining = RebalanceLoopInterval - sinceLastExecution
  /\ pc = [r \in Runners |-> IF r = Main THEN "wait" ELSE "free"]
  /\ prevAllocations = NoCycle
  /\ newAllocations = NoCycle
  /\ operations = NoCycle
  /\ transactionIxs = NoCycle
  /\ nextIx = [r \in Runners |-> 0]
  /\ txLog = NoCycle
  /\ rebalanceTotal = [t \in Triggers |-> IF t = "scheduled" THEN 1 ELSE 0]
  /\ rebalanceErrorsTotal = 0
  /\ txTotal = [status \in {"success", "error"} |-> 0]
  /\ SupervisorStarted
  /\ ResolverIdle
  /\ EngineIdle
  /\ ServicesIdle

NextCallback == onAccountChange

SpecCallback == InitCallback /\ [][NextCallback]_vars

(* ------------------------------------------------------------ supervisor *)
\* everything the worker thread owns: the supervisor has no access to it
workerVars == <<chainVars, loopVars, previousBalance, manualTriggerResolve,
                timerRemaining, pc, cycleVars, metricVars>>

\* faulty variant of delayMs: the delay grows linearly
delayMs_Linear(k) == BaseDelayMs * k

\* delayMs of the k-th restart: 1000 * Math.pow(2, k - 1)
delayMs(k) == BaseDelayMs * 2^(k - 1)

\* faulty variant of mayRestart: one attempt too many
mayRestart_OffByOne ==
  ~shuttingDown /\ rebalanceWorkerRestarts <= MAX_WORKER_RESTARTS

\* the condition of the "exit" handler for a restart
mayRestart ==
  ~shuttingDown /\ rebalanceWorkerRestarts < MAX_WORKER_RESTARTS

\* faulty variant of spawnRebalanceWorker: the new worker is not assigned
\* to rebalanceWorker
spawnRebalanceWorker_DropsReference ==
  /\ workersSpawned' = workersSpawned + 1
  /\ workersAlive' = workersAlive \cup {workersSpawned + 1}
  /\ UNCHANGED rebalanceWorker

\* new Worker(...); rebalanceWorker = worker
spawnRebalanceWorker ==
  /\ workersSpawned' = workersSpawned + 1
  /\ workersAlive' = workersAlive \cup {workersSpawned + 1}
  /\ rebalanceWorker' = workersSpawned + 1

\* the module is loaded, the signal handlers are installed and main() is
\* suspended in await startHealthServer(); the vault is empty and the
\* worker's loop has not started
InitSupervisor ==
  /\ shuttingDown = FALSE
  /\ positionValue = [id \in StrategyIds |-> 0]
  /\ idleBalance = 0
  /\ events = <<>>
  /\ sinceLastExecution = RebalanceLoopInterval
  /\ loopCount = 0
  /\ previousBalance = NoBalance
  /\ manualTriggerResolve = FALSE
  /\ timerRemaining = 0
  /\ pc = [r \in Runners |-> IF r = Main THEN "check" ELSE "free"]
  /\ prevAllocations = NoCycle
  /\ newAllocations = NoCycle
  /\ operations = NoCycle
  /\ transactionIxs = NoCycle
  /\ nextIx = [r \in Runners |-> 0]
  /\ txLog = NoCycle
  /\ rebalanceTotal = [t \in Triggers |-> 0]
  /\ rebalanceErrorsTotal = 0
  /\ txTotal = [status \in {"success", "error"} |-> 0]
  /\ ResolverIdle
  /\ EngineIdle
  /\ ServicesIdle
  /\ mainPc = "health"
  /\ exitCode = NotExited
  /\ shutdownInProgress = FALSE
  /\ rebalanceWorker = NoWorker
  /\ rebalanceWorkerRestarts = 0
  /\ workersSpawned = 0
  /\ workersAlive = {}
  /\ exitHandlerPc = "idle"
  /\ restartDelayMs = 0
  /\ restartSleep = NoTimer
  /\ restartSlept = 0
  /\ stopMessageTo = NoWorker
  /\ shutdownPc = "none"
  /\ workerWait = NoTimer
  /\ loopWaitElapsed = 0
  /\ safetyTimeout = NoTimer
  /\ sinceSignal = 0
  /\ loopsRunning = {}

restartVars == <<rebalanceWorkerRestarts, exitHandlerPc, restartDelayMs,
                 restartSleep, restartSlept>>
shutdownVars == <<shutdownInProgress, stopMessageTo, shutdownPc, workerWait,
                  loopWaitElapsed, safetyTimeout, sinceSignal>>

\* main() resumes after the health server listens: it spawns the worker and
\* starts the loops, whose while loops are entered unless the flag is set
MainStartsLoops ==
  /\ exitCode = NotExited
  /\ mainPc = "health"
  /\ mainPc' = "done"
  /\ spawnRebalanceWorker
  /\ loopsRunning' = IF shuttingDown THEN {} ELSE Loops
  /\ UNCHANGED <<shuttingDown, exitCode, restartVars, shutdownVars,
                 workerVars, resolverVars, engineVars,
                 serviceVars>>

\* rebalanceWorker.once("exit", ...) of gracefulShutdown, registered on the
\* worker the stop message went to: it ends the wait for that worker
ExitListener(w) ==
  IF shutdownPc = "worker" /\ stopMessageTo = w
  THEN /\ shutdownPc' = "loops"
       /\ workerWait' = NoTimer
       /\ loopWaitElapsed' = 0
  ELSE UNCHANGED <<shutdownPc, workerWait, loopWaitElapsed>>

\* faulty variant of WorkerExits: the process exits once the restarts are
\* exhausted
WorkerExits_ExitsWhenExhausted ==
  /\ exitCode = NotExited
  /\ \E w \in workersAlive :
       /\ workersAlive' = workersAlive \ {w}
       /\ ExitListener(w)
  /\ rebalanceWorker' = NoWorker
  /\ IF mayRestart
     THEN /\ rebalanceWorkerRestarts' = rebalanceWorkerRestarts + 1
          /\ restartDelayMs' = delayMs(rebalanceWorkerRestarts + 1)
          /\ restartSleep' = delayMs(rebalanceWorkerRestarts + 1)
          /\ restartSlept' = 0
          /\ exitHandlerPc' = "sleep"
          /\ UNCHANGED <<exitCode, loopsRunning>>
     ELSE /\ UNCHANGED restartVars
          /\ exitCode' = IF rebalanceWorkerRestarts >= MAX_WORKER_RESTARTS
                         THEN 1 ELSE exitCode
          /\ loopsRunning' = IF rebalanceWorkerRestarts >= MAX_WORKER_RESTARTS
                             THEN {} ELSE loopsRunning
  /\ UNCHANGED <<shuttingDown, mainPc, shutdownInProgress,
                 workersSpawned, stopMessageTo, safetyTimeout, sinceSignal,
                 workerVars, resolverVars, engineVars,
                 serviceVars>>

\* the worker exits, with any code: the "exit" handler of
\* spawnRebalanceWorker up to its sleep, then the once("exit") listener of
\* gracefulShutdown if it waits for this worker
WorkerExits ==
  /\ exitCode = NotExited
  /\ \E w \in workersAlive :
       /\ workersAlive' = workersAlive \ {w}
       /\ ExitListener(w)
  /\ \E code \in {0, 1} :
       /\ rebalanceWorker' = NoWorker
       /\ IF mayRestart
          THEN /\ rebalanceWorkerRestarts' = rebalanceWorkerRestarts + 1
               /\ restartDelayMs' = delayMs(rebalanceWorkerRestarts + 1)
               /\ restartSleep' = delayMs(rebalanceWorkerRestarts + 1)
               /\ restartSlept' = 0
               /\ exitHandlerPc' = "sleep"
          ELSE UNCHANGED restartVars
  /\ UNCHANGED <<shuttingDown, mainPc, exitCode, shutdownInProgress,
                 workersSpawned, stopMessageTo, safetyTimeout, sinceSignal,
                 loopsRunning, workerVars, resolverVars, engineVars,
                 serviceVars>>

\* sleep(delayMs) of the "exit" handler returns: the flag is read again
RestartAfterSleep ==
  /\ exitCode = NotExited
  /\ exitHandlerPc = "sleep"
  /\ restartSleep = 0
  /\ exitHandlerPc' = "idle"
  /\ restartSleep' = NoTimer
  /\ IF ~shuttingDown
     THEN spawnRebalanceWorker
     ELSE UNCHANGED <<workersSpawned, workersAlive, rebalanceWorker>>
  /\ UNCHANGED <<shuttingDown, mainPc, exitCode, rebalanceWorkerRestarts,
                 restartDelayMs, restartSlept, shutdownVars, loopsRunning,
                 workerVars, resolverVars, engineVars,
                 serviceVars>>

\* faulty variant of gracefulShutdown: the flag shutdownInProgress is not
\* tested, every signal starts the shutdown again
gracefulShutdown_Unguarded ==
  /\ exitCode = NotExited
  /\ shutdownInProgress' = TRUE
  /\ safetyTimeout' = SafetyTimeoutMs
  /\ sinceSignal' = 0
  /\ shuttingDown' = TRUE
  /\ IF rebalanceWorker # NoWorker
     THEN /\ stopMessageTo' = rebalanceWorker
          /\ workerWait' = WorkerWaitMs
          /\ shutdownPc' = "worker"
          /\ UNCHANGED loopWaitElapsed
     ELSE /\ shutdownPc' = "loops"
          /\ loopWaitElapsed' = 0
          /\ UNCHANGED <<stopMessageTo, workerWait>>
  /\ UNCHANGED <<mainPc, exitCode, rebalanceWorker, workersSpawned,
                 workersAlive,
                 restartVars, loopsRunning, workerVars, resolverVars, engineVars,
                 serviceVars>>

\* faulty variant of gracefulShutdown: no safety timeout is armed
gracefulShutdown_NoSafetyTimeout ==
  /\ exitCode = NotExited
  /\ IF shutdownInProgress
     THEN UNCHANGED <<shuttingDown, shutdownVars>>
     ELSE /\ shutdownInProgress' = TRUE
          /\ safetyTimeout' = NoTimer
          /\ sinceSignal' = 0
          /\ shuttingDown' = TRUE
          /\ IF rebalanceWorker # NoWorker
             THEN /\ stopMessageTo' = rebalanceWorker
                  /\ workerWait' = WorkerWaitMs
                  /\ shutdownPc' = "worker"
                  /\ UNCHANGED loopWaitElapsed
             ELSE /\ shutdownPc' = "loops"
                  /\ loopWaitElapsed' = 0
                  /\ UNCHANGED <<stopMessageTo, workerWait>>
  /\ UNCHANGED <<mainPc, exitCode, rebalanceWorker, workersSpawned,
                 workersAlive,
                 restartVars, loopsRunning, workerVars, resolverVars, engineVars,
                 serviceVars>>

\* SIGINT or SIGTERM: gracefulShutdown up to its first await
gracefulShutdown ==
  /\ exitCode = NotExited
  /\ IF shutdownInProgress
     THEN UNCHANGED <<shuttingDown, shutdownVars>>
     ELSE /\ shutdownInProgress' = TRUE
          /\ safetyTimeout' = SafetyTimeoutMs
          /\ sinceSignal' = 0
          /\ shuttingDown' = TRUE
          /\ IF rebalanceWorker # NoWorker
             THEN /\ stopMessageTo' = rebalanceWorker
                  /\ workerWait' = WorkerWaitMs
                  /\ shutdownPc' = "worker"
                  /\ UNCHANGED loopWaitElapsed
             ELSE /\ shutdownPc' = "loops"
                  /\ loopWaitElapsed' = 0
                  /\ UNCHANGED <<stopMessageTo, workerWait>>
  /\ UNCHANGED <<mainPc, exitCode, rebalanceWorker, workersSpawned,
                 workersAlive,
                 restartVars, loopsRunning, workerVars, resolverVars, engineVars,
                 serviceVars>>

\* the worker did not exit within WorkerWaitMs: gracefulShutdown goes on
WorkerWaitTimesOut ==
  /\ exitCode = NotExited
  /\ shutdownPc = "worker"
  /\ workerWait = 0
  /\ shutdownPc' = "loops"
  /\ workerWait' = NoTimer
  /\ loopWaitElapsed' = 0
  /\ UNCHANGED <<shuttingDown, mainPc, exitCode, shutdownInProgress,
                 rebalanceWorker, workersSpawned, workersAlive, restartVars,
                 stopMessageTo,
                 safetyTimeout, sinceSignal, loopsRunning, workerVars,
                 resolverVars, engineVars,
                 serviceVars>>

\* process.exit(code): the process and all its threads are gone
processExit(code) ==
  /\ exitCode' = code
  /\ loopsRunning' = {}
  /\ workersAlive' = {}
  /\ UNCHANGED <<shuttingDown, mainPc, shutdownInProgress, rebalanceWorker,
                 workersSpawned, restartVars, stopMessageTo, shutdownPc,
                 workerWait, loopWaitElapsed, safetyTimeout, sinceSignal,
                 workerVars, resolverVars, engineVars,
                 serviceVars>>

\* the poll of gracefulShutdown finds maxWaitMs elapsed: cleanup, exit(0)
ShutdownCompletes ==
  /\ exitCode = NotExited
  /\ shutdownPc = "loops"
  /\ loopWaitElapsed >= maxWaitMs
  /\ processExit(0)

\* the safety timeout fires: exit(1)
SafetyTimeoutFires ==
  /\ exitCode = NotExited
  /\ safetyTimeout = 0
  /\ processExit(1)

\* a loop of the main thread returns from its sleep, finds the flag set and
\* leaves its while loop
LoopEnds(l) ==
  /\ exitCode = NotExited
  /\ shuttingDown
  /\ l \in loopsRunning
  /\ loopsRunning' = loopsRunning \ {l}
  /\ UNCHANGED <<shuttingDown, mainPc, exitCode, rebalanceWorker,
                 workersSpawned, workersAlive, restartVars, shutdownVars,
                 workerVars,
                 resolverVars, engineVars,
                 serviceVars>>

\* some timer of the main thread has expired and its handler has not run
TimerDue ==
  \/ exitHandlerPc = "sleep" /\ restartSleep = 0
  \/ shutdownPc = "worker" /\ workerWait = 0
  \/ shutdownPc = "loops" /\ loopWaitElapsed >= maxWaitMs
  \/ safetyTimeout = 0

TimerPending ==
  restartSleep > 0 \/ workerWait > 0 \/ safetyTimeout > 0
    \/ shutdownPc = "loops"

CountDown(timer) == IF timer > 0 THEN timer - TickMs ELSE timer

\* the clock of the main thread advances by TickMs.  The main thread does
\* no blocking work, so the handler of an expired timer runs before the
\* clock advances further.
SupervisorTick ==
  /\ exitCode = NotExited
  /\ ~TimerDue
  /\ TimerPending
  /\ restartSleep' = CountDown(restartSleep)
  /\ restartSlept' = IF exitHandlerPc = "sleep" THEN restartSlept + TickMs
                     ELSE restartSlept
  /\ workerWait' = CountDown(workerWait)
  /\ safetyTimeout' = CountDown(safetyTimeout)
  /\ loopWaitElapsed' = IF shutdownPc = "loops" THEN loopWaitElapsed + TickMs
                        ELSE loopWaitElapsed
  /\ sinceSignal' = IF shutdownInProgress THEN sinceSignal + TickMs
                    ELSE sinceSignal
  /\ UNCHANGED <<shuttingDown, mainPc, exitCode, shutdownInProgress,
                 rebalanceWorker, rebalanceWorkerRestarts, workersSpawned,
                 workersAlive,
                 exitHandlerPc, restartDelayMs, stopMessageTo, shutdownPc,
                 loopsRunning, workerVars, resolverVars, engineVars,
                 serviceVars>>

NextSupervisor ==
  \/ MainStartsLoops
  \/ WorkerExits
  \/ RestartAfterSleep
  \/ gracefulShutdown
  \/ WorkerWaitTimesOut
  \/ ShutdownCompletes
  \/ SafetyTimeoutFires
  \/ \E l \in Loops : LoopEnds(l)
  \/ SupervisorTick

SpecSupervisor == InitSupervisor /\ [][NextSupervisor]_vars

\* the event loop of the main thread runs: time passes and the handlers of
\* expired timers are called
SpecSupervisorFair ==
  /\ SpecSupervisor
  /\ WF_vars(SupervisorTick)
  /\ WF_vars(RestartAfterSleep)
  /\ WF_vars(WorkerWaitTimesOut)
  /\ WF_vars(ShutdownCompletes)
  /\ WF_vars(SafetyTimeoutFires)

(* --------------------------------------------------------- yield resolver *)
\* config.minTvlUsd and config.maxDilutionPct, scaled to the units of the
\* model: TVL and deposits in whole USD, APY and dilution in whole percent
MinTvlUsd == 1
MaxDilutionPct == 1

\* config.assetMintAddress
AssetMint == "asset"

\* s.address of a registered strategy
StrategyAddress(id) == id

\* the markets the Dial API may list: lending markets of two providers for
\* the vault's asset, and a market for another token
DialMarket(provider, token, apy, tvl) ==
  [provider |-> provider, token |-> token, depositApy |-> apy,
   totalDepositUsd |-> tvl,
   vaultAddress |-> IF provider = "kamino" THEN "kv1" ELSE NULL]

DialMarkets ==
  {DialMarket(p, AssetMint, apy, tvl) :
     p \in {"jupiter", "kamino"}, apy \in {1, 2}, tvl \in 0..MaxFunds}
    \cup {DialMarket("jupiter", "other", 2, MaxFunds)}

MarketLists ==
  UNION {[1..n -> DialMarkets] : n \in 0..MaxMarkets}

\* fetchYieldMarkets after a successful response: the markets of the asset
fetchYieldMarkets(markets) ==
  LET ForAsset(m) == m.token = AssetMint
  IN SelectSeq(markets, ForAsset)

\* strategyRegistry.strategies.find(...): the first of the strategies, given
\* by their indices, that pass the test
FindStrategyIn(registry, hits) ==
  IF hits = {} THEN NULL
  ELSE registry[CHOOSE i \in hits : \A j \in hits : i <= j]

FindStrategy(hits) == FindStrategyIn(Strategies, hits)

\* faulty variant of MatchedStrategyIn: the two tests of the type are left
\* out
MatchedStrategyIn_AnyType(registry, market) ==
  LET itsVault == {i \in 1..Len(registry) :
                     StrategyAddress(registry[i]) = market.vaultAddress}
      byVault == IF market.vaultAddress # NULL
                 THEN FindStrategyIn(registry, itsVault) ELSE NULL
  IN IF byVault # NULL THEN byVault
     ELSE IF market.provider = "jupiter"
          THEN FindStrategyIn(registry, 1..Len(registry))
     ELSE NULL

\* the strategy of the registry that matchMarketsToStrategies pairs a
\* market with, or NULL
MatchedStrategyIn(registry, market) ==
  LET itsVault == {i \in 1..Len(registry) :
                     /\ StrategyType(registry[i]) = "kaminoVault"
                     /\ StrategyAddress(registry[i]) = market.vaultAddress}
      jupiterLend == {i \in 1..Len(registry) :
                        StrategyType(registry[i]) = "jupiterLend"}
      byVault == IF market.vaultAddress # NULL
                 THEN FindStrategyIn(registry, itsVault) ELSE NULL
  IN IF byVault # NULL THEN byVault
     ELSE IF market.provider = "jupiter"
          THEN FindStrategyIn(registry, jupiterLend)
     ELSE NULL

\* with the registry of the vault
MatchedStrategy(market) == MatchedStrategyIn(Strategies, market)

RECURSIVE matchMarkets(_, _)
matchMarkets(registry, markets) ==
  IF markets = <<>> THEN <<>>
  ELSE LET strategy == MatchedStrategyIn(registry, Head(markets))
       IN (IF strategy # NULL
           THEN <<[market |-> Head(markets), strategy |-> strategy]>>
           ELSE <<>>) \o matchMarkets(registry, Tail(markets))

matchMarketsToStrategies(markets) == matchMarkets(Strategies, markets)

filterByTvl(matched) ==
  LET Enough(m) == m.market.totalDepositUsd >= MinTvlUsd
  IN SelectSeq(matched, Enough)

\* faulty variant of checkDilution: the vault's own deposit is ignored
checkDilution_IgnoresDeposit(market, ours) == market.totalDepositUsd # 0

\* depositApy - depositApy * tvl / (tvl + ours) <= maxPct, in exact
\* arithmetic; with tvl + ours = 0 the quotient is NaN and the test fails
checkDilution(market, ours) ==
  /\ market.totalDepositUsd + ours # 0
  /\ market.depositApy * ours
       <= MaxDilutionPct * (market.totalDepositUsd + ours)

\* the first element of the list after the stable sort by descending APY
RECURSIVE FirstOfHighestApy(_)
FirstOfHighestApy(matched) ==
  IF Len(matched) = 1 THEN matched[1]
  ELSE LET rest == FirstOfHighestApy(Tail(matched))
       IN IF rest.market.depositApy > matched[1].market.depositApy
          THEN rest ELSE matched[1]

\* the list selectWinner sorts: what both filters leave
dilutionFiltered(matched, ours) ==
  LET NotDiluted(m) == checkDilution(m.market, ours)
  IN SelectSeq(filterByTvl(matched), NotDiluted)

\* selectWinner: NULL when both filters leave nothing, else the id of the
\* strategy of the winner
selectWinner(matched, ours) ==
  IF dilutionFiltered(matched, ours) = <<>> THEN NULL
  ELSE FirstOfHighestApy(dilutionFiltered(matched, ours)).strategy

\* the market of the winner that selectWinner returns
winnerMarket(api, ours) ==
  FirstOfHighestApy(
    dilutionFiltered(matchMarketsToStrategies(fetchYieldMarkets(api.markets)),
                     ours)).market

Thrown == "thrown"

\* the try block of resolveYieldWinner: the id of the winner, the reason of
\* a fallback it reports itself, or Thrown when one of its awaits rejects
tryResolve(api, ours) ==
  IF api.fetch # "ok" THEN Thrown
  ELSE LET matched == matchMarketsToStrategies(fetchYieldMarkets(api.markets))
       IN IF matched = <<>> THEN "no_match"
          ELSE IF api.price # "ok" THEN Thrown
          ELSE IF selectWinner(matched, ours) = NULL THEN "all_filtered"
          ELSE selectWinner(matched, ours)

\* faulty variant of catchReason: the error propagates to the caller
catchReason_Rethrows(outcome) == outcome

\* the catch block turns an error into the fallback reason api_fail
catchReason(outcome) == IF outcome = Thrown THEN "api_fail" ELSE outcome

\* faulty variant of incFallback: only the failure of the API is counted
incFallback_OnlyApiFail(reason) ==
  rebalanceFallbackTotal' =
    [rebalanceFallbackTotal EXCEPT ![reason] =
       IF reason = "api_fail" THEN @ + 1 ELSE @]

\* workerMetrics.inc("rebalance_fallback_total", {reason})
incFallback(reason) ==
  rebalanceFallbackTotal' = [rebalanceFallbackTotal EXCEPT ![reason] = @ + 1]

\* getCurrentAndTargetAllocation calls resolveYieldWinner with the total
\* value of the vault; the asset's price is 1 USD
resolveYieldWinner ==
  /\ pc[Main] = "alloc"
  /\ resolvedWinner = Pending
  /\ LET outcome == catchReason(tryResolve(yieldApi, TotalFunds))
     IN /\ ourDepositUsd' = TotalFunds
        /\ IF outcome \in FallbackReasons
           THEN /\ incFallback(outcome)
                /\ resolvedWinner' = NULL
                /\ UNCHANGED <<yieldWinnerApy, yieldWinnerTvl>>
           ELSE /\ UNCHANGED rebalanceFallbackTotal
                /\ IF outcome \in StrategyIds
                   THEN /\ yieldWinnerApy' =
                             winnerMarket(yieldApi, TotalFunds).depositApy
                        /\ yieldWinnerTvl' =
                             winnerMarket(yieldApi, TotalFunds).totalDepositUsd
                   ELSE UNCHANGED <<yieldWinnerApy, yieldWinnerTvl>>
                /\ resolvedWinner' = outcome
  /\ UNCHANGED <<shuttingDown, workerVars, supervisorVars, yieldApi,
                 engineVars, serviceVars>>

\* the main loop has started its first cycle and is about to resolve the
\* winner; the API answers with any list of markets, or fails
InitResolver ==
  /\ shuttingDown = FALSE
  /\ positionValue = [id \in StrategyIds |-> 0]
  /\ idleBalance \in 0..MaxFunds
  /\ events = <<>>
  /\ sinceLastExecution = RebalanceLoopInterval
  /\ loopCount = 0
  /\ previousBalance = NoBalance
  /\ manualTriggerResolve = FALSE
  /\ timerRemaining = 0
  /\ pc = [r \in Runners |-> IF r = Main THEN "alloc" ELSE "free"]
  /\ prevAllocations = NoCycle
  /\ newAllocations = NoCycle
  /\ operations = NoCycle
  /\ transactionIxs = NoCycle
  /\ nextIx = [r \in Runners |-> 0]
  /\ txLog = NoCycle
  /\ rebalanceTotal = [t \in Triggers |-> IF t = "scheduled" THEN 1 ELSE 0]
  /\ rebalanceErrorsTotal = 0
  /\ txTotal = [status \in {"success", "error"} |-> 0]
  /\ SupervisorStarted
  /\ yieldApi \in [fetch : {"ok", "fail"}, markets : MarketLists,
                   price : {"ok", "fail"}]
  /\ ourDepositUsd = 0
  /\ resolvedWinner = Pending
  /\ rebalanceFallbackTotal = [reason \in FallbackReasons |-> 0]
  /\ yieldWinnerApy = NoGauge
  /\ yieldWinnerTvl = NoGauge
  /\ EngineIdle
  /\ ServicesIdle

NextResolver == resolveYieldWinner

SpecResolver == InitResolver /\ [][NextResolver]_vars

(* ------------------------------------- consecutive cycles, same yield data *)
\* getCurrentAndTargetAllocation with the resolver returning what it
\* returned before: the yield data has not changed between the cycles; every
\* adapter builds its instruction
PrepareCycleResolved(r) ==
  /\ pc[r] = "alloc"
  /\ executeRebalance(r, CurrentAllocation(positionValue, idleBalance),
                      TargetAllocation(positionValue, idleBalance,
                                       resolvedWinner))
  /\ transactionIxs'[r] = BuildInstructions(operations'[r], {}, 1)

\* the loop starts with any positions; the resolver has one answer, a
\* winner or none, for every cycle
InitRerun ==
  /\ shuttingDown = FALSE
  /\ positionValue \in [StrategyIds -> 0..MaxFunds]
  /\ idleBalance \in 0..MaxFunds
  /\ TotalFunds <= MaxFunds
  /\ events = <<>>
  /\ sinceLastExecution = RebalanceLoopInterval
  /\ loopCount = 0
  /\ previousBalance = NoBalance
  /\ manualTriggerResolve = FALSE
  /\ timerRemaining = 0
  /\ pc = [r \in Runners |-> IF r = Main THEN "check" ELSE "free"]
  /\ prevAllocations = NoCycle
  /\ newAllocations = NoCycle
  /\ operations = NoCycle
  /\ transactionIxs = NoCycle
  /\ nextIx = [r \in Runners |-> 0]
  /\ txLog = NoCycle
  /\ rebalanceTotal = [t \in Triggers |-> 0]
  /\ rebalanceErrorsTotal = 0
  /\ txTotal = [status \in {"success", "error"} |-> 0]
  /\ SupervisorStarted
  /\ yieldApi = NoYieldApi
  /\ ourDepositUsd = 0
  /\ resolvedWinner \in WinnerCandidates \cup {NULL}
  /\ rebalanceFallbackTotal = [reason \in FallbackReasons |-> 0]
  /\ yieldWinnerApy = NoGauge
  /\ yieldWinnerTvl = NoGauge
  /\ EngineIdle
  /\ ServicesIdle

\* nothing but the loop itself acts: no user deposit, no failure of the
\* network, no shutdown
NextRerun ==
  \/ Tick
  \/ MainCheck
  \/ TimerFires
  \/ onAccountChange
  \/ \E r \in Runners : PrepareCycleResolved(r)
  \/ \E r \in Runners : SubmitBatch(r)
  \/ \E r \in Runners : FinishCycle(r)

SpecRerun == InitRerun /\ [][NextRerun]_vars

(* ------------------------------------------ allocation engine on its own *)
MaxValue == 3

\* the registry the engine is called for: two Kamino vaults and a Jupiter
\* lending strategy; a call covers the first n of them
EngineRegistry == <<"s3", "s4", "s2">>

\* availableWithdrawableLiquidity: what a Kamino vault can release, and
\* MAX_SAFE_INTEGER for the strategies without an entry in the map
Liquidities(n) ==
  {l \in [1..n -> (0..MaxValue) \cup {MAX_SAFE_INTEGER}] :
     \A i \in 1..n :
       StrategyType(EngineRegistry[i]) # "kaminoVault" =>
         l[i] = MAX_SAFE_INTEGER}

EngineInputs(n) ==
  {[i \in 1..n |-> StrategyInput(EngineRegistry[i], v[i], l[i])] :
     v \in [1..n -> 0..MaxValue], l \in Liquidities(n)}

\* totalPositionValue: the positions and the idle balance
EngineTotal ==
  SumSeq(MapSeq(engineInputs, LAMBDA inp : inp.positionValue)) + engineIdle

\* faulty variant of OverShare: a strategy locked at exactly the share is
\* pinned as well
OverShare_AtLeastShare(total, inputs, P) ==
  {i \in (1..Len(inputs)) \ P :
     Locked(inputs[i]) >= EqualShare(total, inputs, P)}

\* the unpinned strategies whose locked amount is above the equal share
OverShare(total, inputs, P) ==
  {i \in (1..Len(inputs)) \ P :
     Locked(inputs[i]) > EqualShare(total, inputs, P)}

\* the worker is about to call createYieldBasedAllocation for any registry
\* of one to three strategies, any positions, liquidity and idle balance,
\* with or without a winner
InitEngine ==
  /\ shuttingDown = FALSE
  /\ positionValue = [id \in StrategyIds |-> 0]
  /\ idleBalance = 0
  /\ events = <<>>
  /\ sinceLastExecution = RebalanceLoopInterval
  /\ loopCount = 0
  /\ previousBalance = NoBalance
  /\ manualTriggerResolve = FALSE
  /\ timerRemaining = 0
  /\ pc = [r \in Runners |-> IF r = Main THEN "alloc" ELSE "free"]
  /\ prevAllocations = NoCycle
  /\ newAllocations = NoCycle
  /\ operations = NoCycle
  /\ transactionIxs = NoCycle
  /\ nextIx = [r \in Runners |-> 0]
  /\ txLog = NoCycle
  /\ rebalanceTotal = [t \in Triggers |-> IF t = "scheduled" THEN 1 ELSE 0]
  /\ rebalanceErrorsTotal = 0
  /\ txTotal = [status \in {"success", "error"} |-> 0]
  /\ SupervisorStarted
  /\ ResolverIdle
  /\ ServicesIdle
  /\ \E n \in 1..Len(EngineRegistry) :
       /\ engineInputs \in EngineInputs(n)
       /\ engineWinner \in {NULL} \cup {EngineRegistry[i] : i \in 1..n}
  /\ engineIdle \in 0..MaxValue
  /\ enginePinned = {}
  /\ engineIterations = 0
  /\ enginePc = "call"
  /\ engineTargets = <<>>

engineCallVars == <<engineInputs, engineIdle, engineWinner>>

\* createYieldBasedAllocation is entered: with a winner the vector is
\* computed at once, without one the equal-share computation starts
EnterEngine ==
  /\ enginePc = "call"
  /\ IF engineWinner # NULL
     THEN /\ enginePc' = "done"
          /\ engineTargets' =
               createYieldBasedAllocation(EngineTotal, engineInputs,
                                          engineWinner)
     ELSE /\ enginePc' = "share"
          /\ UNCHANGED engineTargets
  /\ UNCHANGED <<enginePinned, engineIterations, engineCallVars>>
  /\ UNCHANGED <<shuttingDown, workerVars, supervisorVars, resolverVars,
                 serviceVars>>

\* one pass of the equal-share computation: the strategies locked above the
\* share are pinned; when there is none the vector is returned
EqualShareIteration ==
  /\ enginePc = "share"
  /\ engineIterations' = engineIterations + 1
  /\ LET more == OverShare(EngineTotal, engineInputs, enginePinned)
     IN IF more = {}
        THEN /\ enginePc' = "done"
             /\ engineTargets' =
                  createYieldBasedAllocation(EngineTotal, engineInputs, NULL)
             /\ UNCHANGED enginePinned
        ELSE /\ enginePinned' = enginePinned \cup more
             /\ UNCHANGED <<enginePc, engineTargets>>
  /\ UNCHANGED engineCallVars
  /\ UNCHANGED <<shuttingDown, workerVars, supervisorVars, resolverVars,
                 serviceVars>>

NextEngine == EnterEngine \/ EqualShareIteration

SpecEngine == InitEngine /\ [][NextEngine]_vars

\* prevAllocations as getCurrentAndTargetAllocation builds it for the call
EngineCurrent ==
  [i \in 1..Len(engineInputs) |->
     Allocation(engineInputs[i].strategyId, engineInputs[i].positionValue)]
    \o <<Allocation(IDLE_ID, engineIdle)>>

\* the caller passes the current vector and the returned one to
\* executeRebalance
ExecuteTargets ==
  /\ enginePc = "done"
  /\ pc[Main] = "alloc"
  /\ executeRebalance(Main, EngineCurrent, engineTargets)

NextEndToEnd == NextEngine \/ ExecuteTargets

SpecEndToEnd == InitEngine /\ [][NextEndToEnd]_vars

\* the calls without a winner, which run the equal-share computation, with
\* all the funds held by the strategies: the locked amounts are then as
\* large a part of the total as they can be
InitEqualShare == InitEngine /\ engineWinner = NULL /\ engineIdle = 0

\* createYieldBasedAllocation is synchronous code: once entered it runs each
\* of its steps without waiting for anything
SpecEqualShareFair ==
  InitEqualShare /\ [][NextEngine]_vars /\ WF_vars(NextEngine)

(* ------------------------------------------------ transaction submission *)
\* compute units a simulation may report, in tens (0: none reported)
MaxUnits == 2

\* optimalCUs before the simulation
DefaultCUs == 1400000
\* the priority fee used when the endpoint gives no estimate
DefaultPriorityFee == 100

\* the worker's loop at rest: nothing in flight, no funds moved
WorkerIdle ==
  /\ positionValue = [id \in StrategyIds |-> 0]
  /\ idleBalance = 0
  /\ events = <<>>
  /\ sinceLastExecution = RebalanceLoopInterval
  /\ loopCount = 0
  /\ previousBalance = NoBalance
  /\ manualTriggerResolve = FALSE
  /\ timerRemaining = 0
  /\ pc = [r \in Runners |-> IF r = Main THEN "check" ELSE "free"]
  /\ prevAllocations = NoCycle
  /\ newAllocations = NoCycle
  /\ operations = NoCycle
  /\ transactionIxs = NoCycle
  /\ nextIx = [r \in Runners |-> 0]
  /\ txLog = NoCycle
  /\ rebalanceTotal = [t \in Triggers |-> 0]
  /\ rebalanceErrorsTotal = 0
  /\ txTotal = [status \in {"success", "error"} |-> 0]

\* what rpcResponse.value.unitsConsumed may be (0 stands for 0 or undefined)
UnitsConsumed == {10 * k : k \in 0..MaxUnits}

\* the steps the description of the function names, in its order
TxSteps == <<"simulate", "estimate", "sign", "send", "confirm">>

\* the catch block: throw new Error("Failed to send transaction: " + error)
txThrows(step) ==
  /\ txPc' = "raised"
  /\ txSteps' = Append(txSteps, step)
  /\ txFailed' = txFailed \cup {step}
  /\ txResult' = "error"

\* sendAndConfirmOptimisedTx is called by a loop
InitTx ==
  /\ shuttingDown = FALSE
  /\ WorkerIdle
  /\ SupervisorStarted
  /\ ResolverIdle
  /\ EngineIdle
  /\ MatchIdle
  /\ RefreshIdle
  /\ HarvestIdle
  /\ txPc = "call"
  /\ txComputeUnitLimit \in UnitsConsumed
  /\ txInstructions \in {<<"ix">>, <<"ix", "ix">>}
  /\ txOptimalCUs = DefaultCUs
  /\ txPriorityFee = NoFee
  /\ txSteps = <<>>
  /\ txFailed = {}
  /\ txResult = "none"

\* if (computeUnitLimit) optimalCUs = computeUnitLimit; else simulate: a
\* blockhash is fetched, the test transaction signed and simulated, and
\* optimalCUs becomes requiredCUs * 1.1 unless no units were reported
estimateComputeUnits ==
  /\ txPc = "call"
  /\ IF txComputeUnitLimit # 0
       THEN /\ txOptimalCUs' = txComputeUnitLimit
            /\ txPc' = "estimate"
            /\ UNCHANGED <<txSteps, txFailed, txResult>>
       ELSE \/ /\ txThrows("simulate")
               /\ UNCHANGED txOptimalCUs
            \/ \E requiredCUs \in UnitsConsumed :
                 /\ txPc' = "estimate"
                 /\ txSteps' = Append(txSteps, "simulate")
                 /\ IF requiredCUs = 0
                      THEN \* "Failed to get required CUs, using default"
                           /\ txFailed' = txFailed \cup {"simulate"}
                           /\ UNCHANGED txOptimalCUs
                      ELSE /\ txOptimalCUs' = (requiredCUs * 11) \div 10
                           /\ UNCHANGED txFailed
                 /\ UNCHANGED txResult
  /\ UNCHANGED <<txComputeUnitLimit, txInstructions, txPriorityFee>>
  /\ UNCHANGED <<shuttingDown, workerVars, supervisorVars, resolverVars,
                 engineVars, matchVars, refreshVars, harvestVars>>

\* the compute-unit instruction is pushed, a second transaction is built
\* and signed and getPriorityFeeEstimate is asked; without data.result the
\* default fee is used
getPriorityFeeEstimate ==
  /\ txPc = "estimate"
  /\ txInstructions' = Append(txInstructions, "computeUnitLimit")
  /\ \/ /\ txThrows("estimate")
        /\ UNCHANGED txPriorityFee
     \/ \E result \in {NoFee} \cup 0..MaxUnits :
          /\ txPc' = "sign"
          /\ txSteps' = Append(txSteps, "estimate")
          /\ IF result = NoFee
               THEN \* "Failed to get fee estimate, using default"
                    /\ txFailed' = txFailed \cup {"estimate"}
                    /\ txPriorityFee' = DefaultPriorityFee
               ELSE /\ txPriorityFee' = result
                    /\ UNCHANGED txFailed
          /\ UNCHANGED txResult
  /\ UNCHANGED <<txComputeUnitLimit, txOptimalCUs>>
  /\ UNCHANGED <<shuttingDown, workerVars, supervisorVars, resolverVars,
                 engineVars, matchVars, refreshVars, harvestVars>>

\* the compute-price instruction is pushed, the final transaction is built
\* on a fresh blockhash and signed
signTransaction ==
  /\ txPc = "sign"
  /\ txInstructions' = Append(txInstructions, "computeUnitPrice")
  /\ \/ txThrows("sign")
     \/ /\ txPc' = "send"
        /\ txSteps' = Append(txSteps, "sign")
        /\ UNCHANGED <<txFailed, txResult>>
  /\ UNCHANGED <<txComputeUnitLimit, txOptimalCUs, txPriorityFee>>
  /\ UNCHANGED <<shuttingDown, workerVars, supervisorVars, resolverVars,
                 engineVars, matchVars, refreshVars, harvestVars>>

\* connection.sendTransaction(transaction, { maxRetries: 5, ... })
sendTransaction ==
  /\ txPc = "send"
  /\ \/ txThrows("send")
     \/ /\ txPc' = "confirm"
        /\ txSteps' = Append(txSteps, "send")
        /\ UNCHANGED <<txFailed, txResult>>
  /\ UNCHANGED <<txComputeUnitLimit, txInstructions, txOptimalCUs,
                 txPriorityFee>>
  /\ UNCHANGED <<shuttingDown, workerVars, supervisorVars, resolverVars,
                 engineVars, matchVars, refreshVars, harvestVars>>

\* await connection.confirmTransaction(confirmationStrategy, "processed");
\* return txSig.  The awaited value, which carries the error of a
\* transaction that failed on chain, is not looked at.
confirmTransaction ==
  /\ txPc = "confirm"
  /\ \/ txThrows("confirm")
     \/ \E err \in BOOLEAN :
          /\ txPc' = "returned"
          /\ txSteps' = Append(txSteps, "confirm")
          /\ txFailed' = IF err THEN txFailed \cup {"confirm"} ELSE txFailed
          /\ txResult' = "signature"
  /\ UNCHANGED <<txComputeUnitLimit, txInstructions, txOptimalCUs,
                 txPriorityFee>>
  /\ UNCHANGED <<shuttingDown, workerVars, supervisorVars, resolverVars,
                 engineVars, matchVars, refreshVars, harvestVars>>

NextTx ==
  \/ estimateComputeUnits
  \/ getPriorityFeeEstimate
  \/ signTransaction
  \/ sendTransaction
  \/ confirmTransaction

SpecTx == InitTx /\ [][NextTx]_vars


(* ------------------------------------- matching over any strategy registry *)
\* strategies in the registry
MaxStrategies == 2

\* the strategies an operator may register: one of each type
RegistryIds == {"s1", "s2", "s3", "s5"}

\* registries of up to MaxStrategies strategies, each registered once
Registries ==
  UNION {{reg \in [1..n -> RegistryIds] :
            \A i, j \in 1..n : reg[i] = reg[j] => i = j} :
         n \in 0..MaxStrategies}

\* a market of the asset that names a vault
VaultMarket(provider, vaultAddress, apy) ==
  [DialMarket(provider, AssetMint, apy, MinTvlUsd)
     EXCEPT !.vaultAddress = vaultAddress]

\* markets of the asset: lending markets of Jupiter, vault markets of Kamino
\* that name a registered vault, the address of a strategy of another type
\* or an unknown vault, and a market of Jupiter that names a vault
MatchableMarkets ==
  {DialMarket("jupiter", AssetMint, apy, tvl) :
     apy \in {1, 2}, tvl \in {0, MinTvlUsd}}
    \cup {VaultMarket("kamino", a, apy) :
            a \in {"s3", "s5", "kv1"}, apy \in {1, 2}}
    \cup {VaultMarket("jupiter", "s3", 2)}

\* resolveYieldWinner has fetched the markets of the asset and is about to
\* match them against the registry
InitMatch ==
  /\ shuttingDown = FALSE
  /\ WorkerIdle
  /\ SupervisorStarted
  /\ ResolverIdle
  /\ EngineIdle
  /\ TxIdle
  /\ RefreshIdle
  /\ HarvestIdle
  /\ registryStrategies \in Registries
  /\ fetchedMarkets \in UNION {[1..n -> MatchableMarkets] : n \in 0..MaxMarkets}
  /\ matchedMarkets = <<>>
  /\ selectedWinner = Pending

\* matched = matchMarketsToStrategies(markets);
\* winner = selectWinner(matched, totalUsd), for a vault that holds nothing
selectYieldWinner ==
  /\ selectedWinner = Pending
  /\ matchedMarkets' = matchMarkets(registryStrategies, fetchedMarkets)
  /\ selectedWinner' =
       selectWinner(matchMarkets(registryStrategies, fetchedMarkets), 0)
  /\ UNCHANGED <<registryStrategies, fetchedMarkets>>
  /\ UNCHANGED <<shuttingDown, workerVars, supervisorVars, resolverVars,
                 engineVars, txVars, refreshVars, harvestVars>>

NextMatch == selectYieldWinner

SpecMatch == InitMatch /\ [][NextMatch]_vars


(* ----------------------------------------------------------- refresh loop *)
\* strategies the refresh loop looks at
MaxRefreshed == 3

\* config.refreshMinPositionValue
RefreshMinPositionValue == 1
\* config.refreshLoopIntervalMs, in units of the receipts' clock
RefreshLoopInterval == 1
\* investBatchSize of refreshDepositStrategies
RefreshBatchSize == 2
\* Date.now() when the receipts are looked at, in the same units
RefreshNow == 2

\* the registry the refresh loop walks through, in its order
RefreshRegistry == <<"s1", "s2", "s3", "s4">>

\* cutoffTime = (Date.now() - config.refreshLoopIntervalMs) / 1000
cutoffTime == RefreshNow - RefreshLoopInterval

\* receipts of n strategies: a position at or above the minimum, updated
\* before or at the cutoff
Receipts(n) ==
  [1..n -> [positionValue : {RefreshMinPositionValue,
                             RefreshMinPositionValue + 1},
            lastUpdatedTs : {cutoffTime - 1, cutoffTime}]]

\* faulty variant of needsRefresh: a position at the minimum counts too
needsRefresh_AtMinimum(receipt) ==
  /\ receipt.positionValue >= RefreshMinPositionValue
  /\ receipt.lastUpdatedTs < cutoffTime

\* receipt.positionValue.gt(cutOffPositionValue) &&
\* receipt.lastUpdatedTs.lt(cutoffTime)
needsRefresh(receipt) ==
  /\ receipt.positionValue > RefreshMinPositionValue
  /\ receipt.lastUpdatedTs < cutoffTime

\* the loop over the registry: the adapter of a strategy to refresh pushes a
\* deposit of new BN(0) unless it caught an error of its own
RECURSIVE RefreshInstructions(_, _, _, _)
RefreshInstructions(strategies, receipts, failed, i) ==
  IF i > Len(strategies) THEN <<>>
  ELSE (IF /\ needsRefresh(receipts[i])
           /\ StrategyType(strategies[i]) \in AdapterKinds
           /\ i \notin failed
        THEN <<[strategyId |-> strategies[i], amount |-> 0]>>
        ELSE <<>>) \o RefreshInstructions(strategies, receipts, failed, i + 1)

\* the strategies whose adapter may catch an error and build nothing
MaySkipRefresh(strategies, receipts) ==
  {i \in 1..Len(strategies) :
     /\ StrategyType(strategies[i]) \in SkippingKinds
     /\ needsRefresh(receipts[i])}

\* ixs = transactionIxs.slice(i, i + investBatchSize)
RefreshBatch ==
  SubSeq(refreshIxs, refreshNext + 1,
         IF refreshNext + RefreshBatchSize < Len(refreshIxs)
         THEN refreshNext + RefreshBatchSize ELSE Len(refreshIxs))

\* runRefreshLoop has entered its while loop
InitRefresh ==
  /\ shuttingDown = FALSE
  /\ WorkerIdle
  /\ SupervisorStarted
  /\ ResolverIdle
  /\ EngineIdle
  /\ TxIdle
  /\ MatchIdle
  /\ HarvestIdle
  /\ refreshPc = "iterate"
  /\ refreshStrategies \in
       {SubSeq(RefreshRegistry, 1, n) :
          n \in (1..MaxRefreshed) \cap (1..Len(RefreshRegistry))}
  /\ refreshReceipts = <<>>
  /\ refreshIxs = <<>>
  /\ refreshSkipped = {}
  /\ refreshNext = 0
  /\ refreshLog = <<>>
  /\ refreshLoopCount = 0
  /\ refreshErrorsTotal = 0

refreshOthers ==
  <<workerVars, supervisorVars, resolverVars, engineVars, txVars, matchVars,
    harvestVars>>

\* refreshDepositStrategies up to the submission loop: the receipts are
\* read and the instructions built
refreshDepositStrategies ==
  /\ refreshPc = "iterate"
  /\ \E receipts \in Receipts(Len(refreshStrategies)) :
       \E failed \in SUBSET MaySkipRefresh(refreshStrategies, receipts) :
         /\ refreshReceipts' = receipts
         /\ refreshSkipped' = {refreshStrategies[i] : i \in failed}
         /\ refreshIxs' =
              RefreshInstructions(refreshStrategies, receipts, failed, 1)
  /\ refreshNext' = 0
  /\ refreshLog' = <<>>
  /\ refreshPc' = "submit"
  /\ UNCHANGED <<refreshStrategies, refreshLoopCount, refreshErrorsTotal>>
  /\ UNCHANGED <<shuttingDown, refreshOthers>>

\* the catch block of runRefreshLoop, then sleep(30000)
refreshCatch ==
  /\ refreshErrorsTotal' = refreshErrorsTotal + 1
  /\ refreshPc' = "sleep"
  /\ UNCHANGED <<refreshStrategies, refreshLoopCount>>
  /\ UNCHANGED <<shuttingDown, refreshOthers>>

\* reading the receipts, an adapter that does not catch its errors or the
\* lookup of the address tables throws: nothing is submitted
refreshDepositStrategiesFails ==
  /\ refreshPc = "iterate"
  /\ refreshReceipts' = <<>>
  /\ refreshIxs' = <<>>
  /\ refreshSkipped' = {}
  /\ refreshNext' = 0
  /\ refreshLog' = <<>>
  /\ refreshCatch

\* sendAndConfirmOptimisedTx returns a signature for the next batch
submitRefreshBatch ==
  /\ refreshPc = "submit"
  /\ refreshNext < Len(refreshIxs)
  /\ refreshLog' = Append(refreshLog, [ixs |-> RefreshBatch,
                                       status |-> "success"])
  /\ refreshNext' = refreshNext + RefreshBatchSize
  /\ UNCHANGED <<refreshPc, refreshStrategies, refreshReceipts, refreshIxs,
                 refreshSkipped, refreshLoopCount, refreshErrorsTotal>>
  /\ UNCHANGED <<shuttingDown, refreshOthers>>

\* sendAndConfirmOptimisedTx throws for the next batch: tx_total error,
\* throw error
submitRefreshBatchFails ==
  /\ refreshPc = "submit"
  /\ refreshNext < Len(refreshIxs)
  /\ refreshLog' = Append(refreshLog, [ixs |-> RefreshBatch,
                                       status |-> "error"])
  /\ UNCHANGED <<refreshReceipts, refreshIxs, refreshSkipped, refreshNext>>
  /\ refreshCatch

\* the submission loop is over: loop_iterations_total, loopCount++, sleep
finishRefresh ==
  /\ refreshPc = "submit"
  /\ refreshNext >= Len(refreshIxs)
  /\ refreshLoopCount' = refreshLoopCount + 1
  /\ refreshPc' = "sleep"
  /\ UNCHANGED <<refreshStrategies, refreshReceipts, refreshIxs,
                 refreshSkipped, refreshNext, refreshLog, refreshErrorsTotal>>
  /\ UNCHANGED <<shuttingDown, refreshOthers>>

\* sleep(30000) returns and the condition of the while loop is tested
refreshSleepDone ==
  /\ refreshPc = "sleep"
  /\ shuttingDown \/ refreshLoopCount + refreshErrorsTotal < MaxCycles
  /\ refreshPc' = IF shuttingDown THEN "exited" ELSE "iterate"
  /\ UNCHANGED <<refreshStrategies, refreshReceipts, refreshIxs,
                 refreshSkipped, refreshNext, refreshLog, refreshLoopCount,
                 refreshErrorsTotal>>
  /\ UNCHANGED <<shuttingDown, refreshOthers>>

NextRefresh ==
  \/ Shutdown
  \/ refreshDepositStrategies
  \/ refreshDepositStrategiesFails
  \/ submitRefreshBatch
  \/ submitRefreshBatchFails
  \/ finishRefresh
  \/ refreshSleepDone

SpecRefresh == InitRefresh /\ [][NextRefresh]_vars


(* ------------------------------------------------------- fee harvest loop *)
\* the clock of the harvest loop stops here
MaxClock == 6

\* config.harvestFeeLoopIntervalMs, in polls of the loop
HarvestFeeLoopInterval == 2
\* sleep(30000) of the loop: one poll
HarvestPoll == 1

\* faulty variant of harvestDue: every poll harvests
harvestDue_EveryPoll(now) == now >= lastHarvestTime

\* timeSinceLastExecution >= config.harvestFeeLoopIntervalMs
harvestDue(now) == now - lastHarvestTime >= HarvestFeeLoopInterval

harvestOthers ==
  <<workerVars, supervisorVars, resolverVars, engineVars, txVars, matchVars,
    refreshVars>>

\* runHarvestFeeLoop has entered its while loop; lastExecutionTime is 0 and
\* the clock is further from it than the interval
InitHarvest ==
  /\ shuttingDown = FALSE
  /\ WorkerIdle
  /\ SupervisorStarted
  /\ ResolverIdle
  /\ EngineIdle
  /\ TxIdle
  /\ MatchIdle
  /\ RefreshIdle
  /\ harvestPc = "check"
  /\ harvestClock = HarvestFeeLoopInterval
  /\ harvestNow = 0
  /\ lastHarvestTime = 0
  /\ harvestLoopCount = 0
  /\ harvestErrorsTotal = 0
  /\ harvestSleep = NoTimer
  /\ harvestStarts = <<>>
  /\ harvestOutcome = "none"

\* the condition of the while loop, then now = Date.now() and the test of
\* the interval: leave, harvest, or sleep until the next poll
harvestCheck ==
  /\ harvestPc = "check"
  /\ IF shuttingDown
     THEN /\ harvestPc' = "exited"
          /\ UNCHANGED <<harvestNow, harvestSleep>>
     ELSE /\ harvestNow' = harvestClock
          /\ IF harvestDue(harvestClock)
             THEN /\ harvestPc' = "harvest"
                  /\ UNCHANGED harvestSleep
             ELSE /\ harvestPc' = "sleep"
                  /\ harvestSleep' = HarvestPoll
  /\ UNCHANGED <<harvestClock, lastHarvestTime, harvestLoopCount,
                 harvestErrorsTotal, harvestStarts, harvestOutcome>>
  /\ UNCHANGED <<shuttingDown, harvestOthers>>

\* executeHarvestFee returns: loop_iterations_total, loopCount++,
\* lastExecutionTime = now, then sleep(30000)
executeHarvestFee ==
  /\ harvestPc = "harvest"
  /\ harvestLoopCount' = harvestLoopCount + 1
  /\ lastHarvestTime' = harvestNow
  /\ harvestStarts' = Append(harvestStarts, harvestNow)
  /\ harvestOutcome' = "success"
  /\ harvestPc' = "sleep"
  /\ harvestSleep' = HarvestPoll
  /\ UNCHANGED <<harvestClock, harvestNow, harvestErrorsTotal>>
  /\ UNCHANGED <<shuttingDown, harvestOthers>>

\* executeHarvestFee throws: the catch block counts the error, then
\* sleep(30000)
executeHarvestFeeFails ==
  /\ harvestPc = "harvest"
  /\ harvestErrorsTotal' = harvestErrorsTotal + 1
  /\ harvestOutcome' = "error"
  /\ harvestPc' = "sleep"
  /\ harvestSleep' = HarvestPoll
  /\ UNCHANGED <<harvestClock, harvestNow, lastHarvestTime, harvestLoopCount,
                 harvestStarts>>
  /\ UNCHANGED <<shuttingDown, harvestOthers>>

\* time passes while the harvest is awaited or the loop sleeps
harvestTick ==
  /\ harvestPc \in {"harvest", "sleep"}
  /\ harvestClock < MaxClock
  /\ harvestClock' = harvestClock + 1
  /\ harvestSleep' = IF harvestSleep > 0 THEN harvestSleep - 1
                     ELSE harvestSleep
  /\ UNCHANGED <<harvestPc, harvestNow, lastHarvestTime, harvestLoopCount,
                 harvestErrorsTotal, harvestStarts, harvestOutcome>>
  /\ UNCHANGED <<shuttingDown, harvestOthers>>

\* sleep(30000) returns, on time or late
harvestSleepDone ==
  /\ harvestPc = "sleep"
  /\ harvestSleep = 0
  /\ harvestPc' = "check"
  /\ harvestSleep' = NoTimer
  /\ UNCHANGED <<harvestClock, harvestNow, lastHarvestTime, harvestLoopCount,
                 harvestErrorsTotal, harvestStarts, harvestOutcome>>
  /\ UNCHANGED <<shuttingDown, harvestOthers>>

NextHarvest ==
  \/ Shutdown
  \/ harvestCheck
  \/ executeHarvestFee
  \/ executeHarvestFeeFails
  \/ harvestTick
  \/ harvestSleepDone

SpecHarvest == InitHarvest /\ [][NextHarvest]_vars


(* ------------------------------------------- main loop after a failed cycle *)

\* the rebalance worker's main loop alone: scheduled and manual cycles that
\* may fail while the allocation is computed or while a batch is submitted
\* or confirmed, the 12400 ms sleep of the catch block, and shutdown
NextRetry ==
  \/ Tick
  \/ Shutdown
  \/ MainCheck
  \/ TimerFires
  \/ triggerManualRebalance
  \/ ErrorSleepDone
  \/ PrepareCycle(Main)
  \/ PrepareCycleFails(Main)
  \/ SubmitBatch(Main)
  \/ SubmitBatchFails(Main)
  \/ FinishCycle(Main)

SpecRetry == Init /\ [][NextRetry]_vars

\* the clock advances, the timers of sleep() and of
\* sleepUntilNextRunOrTrigger fire, and the loop's own synchronous steps run
\* once the awaited promise has settled; nothing is assumed about whether a
\* cycle succeeds, about manual triggers or about shutdown
SpecRetryFair ==
  /\ SpecRetry
  /\ WF_vars(Tick)
  /\ WF_vars(ErrorSleepDone)
  /\ WF_vars(MainCheck)
  /\ WF_vars(TimerFires)


(* ---------------------------------------------------------------- claims *)
InCycle(r) == pc[r] \in {"alloc", "exec"}

WithdrawsFirst(s) ==
  \A i, j \in 1..Len(s) :
    i < j => ~(s[i].kind = "deposit" /\ s[j].kind = "withdraw")

\* C1: within one cycle the withdrawals come before the deposits, in the
\* operations derived, in the instructions built and in the submissions
\* confirmed, and once a deposit is confirmed every withdraw instruction of
\* the cycle has been submitted.
C1_WithdrawalsBeforeDeposits ==
  \A r \in Runners :
    /\ WithdrawsFirst(operations[r])
    /\ WithdrawsFirst(transactionIxs[r])
    /\ WithdrawsFirst(txLog[r])
    /\ (\E i \in 1..Len(txLog[r]) : txLog[r][i].kind = "deposit")
         => \A j \in 1..Len(transactionIxs[r]) :
              transactionIxs[r][j].kind = "withdraw" => j <= nextIx[r]

\* a cycle confirmed a withdrawal and then a deposit
C1_Witness ==
  \E r \in Runners :
    /\ Len(txLog[r]) >= 2
    /\ txLog[r][1].kind = "withdraw"
    /\ txLog[r][Len(txLog[r])].kind = "deposit"

\* C2: at most one rebalance cycle (allocation computation plus
\* executeRebalance) is in progress at any time.
C2_CyclesNeverOverlap == Cardinality({r \in Runners : InCycle(r)}) <= 1

ConfirmedAmount(r, kind) ==
  SumSeq(MapSeq(SelectSeq(txLog[r], LAMBDA e : e.kind = kind),
                LAMBDA e : e.moved))

IdleAtStart(r) == prevAllocations[r][Len(prevAllocations[r])].positionValue

\* C3: the deposit a cycle is about to submit, added to the deposits it has
\* confirmed, never exceeds the idle balance at the start of the cycle plus
\* what its confirmed withdrawals released.
C3_DepositsOnlyReleasedCapital ==
  \A r \in Runners :
    (pc[r] = "exec" /\ nextIx[r] < Len(transactionIxs[r])
       /\ transactionIxs[r][nextIx[r] + 1].kind = "deposit")
    => ConfirmedAmount(r, "deposit") + transactionIxs[r][nextIx[r] + 1].amount
         <= IdleAtStart(r) + ConfirmedAmount(r, "withdraw")

\* C4: a step in which a submission fails (tx_total{status="error"} is
\* incremented) ends the cycle of its runner through the catch block of the
\* caller: rebalance_errors_total is incremented, nothing is submitted in the
\* step or left to submit, and the chain keeps what was confirmed before.  A
\* step in which a submission is confirmed moves the loop index forward by
\* one, so no batch is submitted twice.
C4_FailedSubmissionEndsCycle ==
  [][/\ txTotal'["error"] # txTotal["error"] =>
          \E r \in Runners :
            /\ pc[r] = "exec"
            /\ pc'[r] = (IF r = Main THEN "errsleep" ELSE "free")
            /\ rebalanceErrorsTotal' = rebalanceErrorsTotal + 1
            /\ txTotal'["success"] = txTotal["success"]
            /\ transactionIxs'[r] = <<>>
            /\ positionValue' = positionValue
            /\ idleBalance' = idleBalance
     /\ txTotal'["success"] # txTotal["success"] =>
          \E r \in Runners :
            /\ pc[r] = "exec" /\ pc'[r] = "exec"
            /\ nextIx'[r] = nextIx[r] + 1
            /\ transactionIxs'[r] = transactionIxs[r]
            /\ txLog'[r][Len(txLog'[r])].index = nextIx[r]
    ]_vars

\* the only cycle started so far confirmed a withdrawal of the whole of s1
\* and then failed at a later batch; the withdrawal stays applied
C4_Witness ==
  /\ CyclesStarted = 1
  /\ pc[Main] = "errsleep"
  /\ txTotal["success"] >= 1
  /\ txTotal["error"] = 1
  /\ rebalanceErrorsTotal = 1
  /\ positionValue["s1"] = 0
  /\ idleBalance = MaxFunds

\* C5: every operation handed to a strategy adapter has a strictly positive
\* amount.
C5_StrictlyPositiveAmounts ==
  \A r \in Runners : \A i \in 1..Len(operations[r]) :
    operations[r][i].strategyType \in AdapterKinds
      => operations[r][i].amount > 0

Delta(r, i) ==
  newAllocations[r][i].positionValue - prevAllocations[r][i].positionValue

OpsOf(r, id, kind) ==
  {i \in 1..Len(operations[r]) :
     operations[r][i].strategyId = id /\ operations[r][i].kind = kind}

\* C6: a strategy gets a withdraw operation only if its delta is negative,
\* a deposit operation only if its delta is positive, none if its delta is
\* zero, never both, and never two of a kind.
C6_SignMatching ==
  \A r \in Runners : pc[r] = "exec" =>
    /\ \A i \in 1..Len(newAllocations[r]) :
         LET id == newAllocations[r][i].strategyId
         IN /\ OpsOf(r, id, "withdraw") # {} => Delta(r, i) < 0
            /\ OpsOf(r, id, "deposit") # {} => Delta(r, i) > 0
            /\ Delta(r, i) = 0 =>
                 OpsOf(r, id, "withdraw") \cup OpsOf(r, id, "deposit") = {}
            /\ OpsOf(r, id, "withdraw") = {} \/ OpsOf(r, id, "deposit") = {}
            /\ Cardinality(OpsOf(r, id, "withdraw")) <= 1
            /\ Cardinality(OpsOf(r, id, "deposit")) <= 1
    /\ \A k \in 1..Len(operations[r]) :
         \E i \in 1..Len(newAllocations[r]) :
           newAllocations[r][i].strategyId = operations[r][k].strategyId

\* one call derived a withdrawal for s1, a deposit for s2 and nothing for the
\* idle entry, whose delta is zero
C6_Witness ==
  /\ pc[Main] = "exec"
  /\ OpsOf(Main, "s1", "withdraw") # {}
  /\ OpsOf(Main, "s2", "deposit") # {}
  /\ Delta(Main, 3) = 0
  /\ Len(operations[Main]) = 2

\* C7: for every strategy with a negative delta the withdraw amount is the
\* sentinel when the target is zero and current - target otherwise.
C7_WithdrawAmount ==
  \A r \in Runners : pc[r] = "exec" =>
    \A i \in 1..Len(newAllocations[r]) :
      Delta(r, i) < 0 =>
        \E k \in OpsOf(r, newAllocations[r][i].strategyId, "withdraw") :
          operations[r][k].amount =
            IF newAllocations[r][i].positionValue = 0
            THEN MAX_SAFE_INTEGER
            ELSE prevAllocations[r][i].positionValue
                   - newAllocations[r][i].positionValue

\* one call derived a full exit (the sentinel) and a partial withdrawal
C7_Witness ==
  /\ pc[Main] = "exec"
  /\ \E k \in 1..Len(operations[Main]) :
       /\ operations[Main][k].kind = "withdraw"
       /\ operations[Main][k].amount = MAX_SAFE_INTEGER
  /\ \E k \in 1..Len(operations[Main]) :
       /\ operations[Main][k].kind = "withdraw"
       /\ operations[Main][k].amount = 1

WithdrawInstructions(r) ==
  {j \in 1..Len(transactionIxs[r]) : transactionIxs[r][j].kind = "withdraw"}

\* C8: the amount of every deposit operation is its delta minus the number
\* of withdraw instructions built in the cycle.
C8_HaircutCountsIssuedWithdrawals ==
  \A r \in Runners : pc[r] = "exec" =>
    \A i \in 1..Len(newAllocations[r]) :
      \A k \in OpsOf(r, newAllocations[r][i].strategyId, "deposit") :
        operations[r][k].amount
          = Delta(r, i) - Cardinality(WithdrawInstructions(r))

\* a runner's cycle reaches its terminal state in this step
Terminal(r) == InCycle(r) /\ ~InCycle(r)'

\* executeRebalance has submitted every batch and returns
Succeeds(r) == pc[r] = "exec" /\ nextIx[r] >= Len(transactionIxs[r])

\* C9 as stated: every cycle that reaches a terminal state, on success and
\* on failure alike, updates lastExecutionTime and increments loopCount.
C9_EveryTerminalCycleRecorded ==
  [][\A r \in Runners :
       Terminal(r) => sinceLastExecution' = 0 /\ loopCount' = loopCount + 1
    ]_vars

\* C9 amended: a cycle that ends in success sets lastExecutionTime to the
\* current time and increments loopCount; a cycle that ends in failure
\* leaves both unchanged and increments rebalance_errors_total, and in the
\* main loop the sleep of the catch block follows.
C9_OnlySuccessRecorded ==
  [][\A r \in Runners :
       Terminal(r) =>
         IF Succeeds(r)
         THEN /\ sinceLastExecution' = 0
              /\ loopCount' = loopCount + 1
              /\ rebalanceErrorsTotal' = rebalanceErrorsTotal
         ELSE /\ sinceLastExecution' = sinceLastExecution
              /\ loopCount' = loopCount
              /\ rebalanceErrorsTotal' = rebalanceErrorsTotal + 1
              /\ r = Main => pc'[r] = "errsleep"
    ]_vars

\* one cycle has failed and one has succeeded: only the success was recorded
C9_Witness ==
  /\ CyclesStarted = 2
  /\ \A r \in Runners : ~InCycle(r)
  /\ rebalanceErrorsTotal = 1
  /\ loopCount = 1

\* C10: a notification delivered during cooldown, or with a balance not
\* above the configured minimum (so also every balance below it), starts no
\* cycle: no runner moves, lastExecutionTime and loopCount stay as they are
\* and rebalance_total is not incremented.
C10_IgnoredDepositEvent ==
  [][(/\ events # <<>>
      /\ events' = Tail(events)
      /\ previousBalance' = Head(events)
      /\ \/ sinceLastExecution < RebalanceLoopInterval
         \/ Head(events) <= DepositStrategyMinAmount)
     => /\ pc' = pc
        /\ sinceLastExecution' = sinceLastExecution
        /\ loopCount' = loopCount
        /\ rebalanceTotal' = rebalanceTotal
    ]_vars

\* a notification of a balance above the minimum was delivered during
\* cooldown and started nothing
C10_Witness ==
  /\ events = <<>>
  /\ previousBalance > DepositStrategyMinAmount
  /\ sinceLastExecution < RebalanceLoopInterval
  /\ rebalanceTotal["deposit"] = 0
  /\ loopCount = 1
  /\ pc = [r \in Runners |-> IF r = Main THEN "wait" ELSE "free"]

\* C11: a wait of the main loop is resolved by exactly one of the timer and
\* the manual trigger.  The resolver is installed exactly while the loop
\* waits and the timer is armed only while it waits; the step that ends a
\* wait clears both, so the other one can no longer resolve it, and starts
\* at most one cycle, of trigger "scheduled" or "manual" and never both; a
\* manual trigger outside a wait starts nothing.
C11_OneResolutionPerWait ==
  [][/\ manualTriggerResolve <=> pc[Main] = "wait"
     /\ timerRemaining > 0 => pc[Main] = "wait"
     /\ (pc[Main] = "wait" /\ pc'[Main] # "wait") =>
          /\ ~manualTriggerResolve'
          /\ timerRemaining' = 0
          /\ pc'[Main] \in {"alloc", "exited"}
          /\ CyclesStarted' = CyclesStarted + (IF pc'[Main] = "alloc" THEN 1 ELSE 0)
          /\ rebalanceTotal'["deposit"] = rebalanceTotal["deposit"]
     /\ rebalanceTotal'["manual"] # rebalanceTotal["manual"] =>
          /\ pc[Main] = "wait" /\ manualTriggerResolve
          /\ rebalanceTotal'["manual"] = rebalanceTotal["manual"] + 1
          /\ rebalanceTotal'["scheduled"] = rebalanceTotal["scheduled"]
     /\ (pc[Main] = "wait"
           /\ rebalanceTotal'["scheduled"] # rebalanceTotal["scheduled"]) =>
          timerRemaining = 0
    ]_vars

\* a manual trigger resolved a wait whose timer was still pending: the cycle
\* runs inside the interval, the timer is cleared and the resolver removed
C11_Witness ==
  /\ rebalanceTotal["manual"] = 1
  /\ pc[Main] = "alloc"
  /\ sinceLastExecution < RebalanceLoopInterval
  /\ timerRemaining = 0
  /\ ~manualTriggerResolve

\* C12: a cycle with trigger "scheduled" never starts while less than the
\* interval has elapsed since the most recent completed execution.  The loop
\* starts a scheduled cycle either at the top of the loop, after computing
\* the remaining time, or when the timer of its wait fires, without reading
\* lastExecutionTime again (C11): so whenever the loop waits and the timer
\* is due, the interval has elapsed since the last completed execution.
C12_ScheduledOnlyAfterInterval ==
  (pc[Main] = "wait" /\ timerRemaining = 0 /\ ~shuttingDown) => ~isOnCooldown

\* C13: the supervisor restarts the worker at most MAX_WORKER_RESTARTS
\* times: the restart counter never exceeds it, every worker but the first
\* is paid for by a counted restart, and once the counter has reached the
\* maximum and the worker is gone, no step spawns a worker again.
C13_AtMostMaxRestarts ==
  [][/\ rebalanceWorkerRestarts' <= MAX_WORKER_RESTARTS
     /\ workersSpawned' <= 1 + rebalanceWorkerRestarts'
     /\ (rebalanceWorkerRestarts = MAX_WORKER_RESTARTS
          /\ rebalanceWorker = NoWorker /\ exitHandlerPc = "idle") =>
          /\ rebalanceWorker' = NoWorker
          /\ workersSpawned' = workersSpawned
          /\ rebalanceWorkerRestarts' = rebalanceWorkerRestarts
    ]_vars

\* the worker of the third restart has exited and the process runs on
\* without a worker
C13_Witness ==
  /\ rebalanceWorkerRestarts = MAX_WORKER_RESTARTS
  /\ workersSpawned = MAX_WORKER_RESTARTS + 1
  /\ rebalanceWorker = NoWorker
  /\ exitHandlerPc = "idle"
  /\ ~shutdownInProgress
  /\ exitCode = NotExited

\* the delays of the restarts as the claim lists them, in ms
ExpectedDelayMs(k) ==
  CASE k = 1 -> 1000
    [] k = 2 -> 2000
    [] k = 3 -> 4000
    [] OTHER -> NoTimer

\* C14: the delay before the k-th restart is 1000 * 2^(k-1) ms (1 s, 2 s,
\* 4 s), every delay is twice the previous one, and the worker of a restart
\* is spawned only after the handler has slept for at least that delay.
C14_ExponentialBackoff ==
  [][/\ rebalanceWorkerRestarts' # rebalanceWorkerRestarts =>
          /\ rebalanceWorkerRestarts' = rebalanceWorkerRestarts + 1
          /\ restartDelayMs' = ExpectedDelayMs(rebalanceWorkerRestarts')
          /\ rebalanceWorkerRestarts >= 1 =>
               restartDelayMs' = 2 * restartDelayMs
          /\ restartSleep' = restartDelayMs'
     /\ (mainPc = "done" /\ workersSpawned' # workersSpawned) =>
          /\ exitHandlerPc = "sleep"
          /\ restartSlept >= restartDelayMs
    ]_vars

\* the third restart has spawned its worker after a sleep of 4 s
C14_Witness ==
  /\ rebalanceWorkerRestarts = 3
  /\ restartDelayMs = 4000
  /\ restartSlept = 4000
  /\ rebalanceWorker = 4
  /\ exitHandlerPc = "idle"

\* C15: no rebalance worker is spawned once shutdown is in progress.
C15_NoSpawnDuringShutdown ==
  [][shutdownInProgress => workersSpawned' = workersSpawned]_vars

\* C16: an exit of the worker, with any code and however often, leaves the
\* process running and the loops of the main thread untouched; the process
\* ends only through a shutdown.
C16_WorkerExitNeverEndsProcess ==
  [][/\ (rebalanceWorker # NoWorker /\ rebalanceWorker' = NoWorker) =>
          /\ exitCode' = NotExited
          /\ loopsRunning' = loopsRunning
     /\ exitCode' # NotExited => shutdownInProgress
    ]_vars

\* the restarts are exhausted, the last worker is gone, and the process runs
\* with all its other loops
C16_Witness ==
  /\ rebalanceWorkerRestarts = MAX_WORKER_RESTARTS
  /\ rebalanceWorker = NoWorker
  /\ workersSpawned = MAX_WORKER_RESTARTS + 1
  /\ exitCode = NotExited
  /\ loopsRunning = Loops

\* C17: the first shutdown signal posts the stop message to the worker held
\* at that moment, if any; the wait for the worker lasts at most
\* WorkerWaitMs, the process is gone SafetyTimeoutMs after the signal at the
\* latest, and it does exit, whatever the worker and the loops do.
C17_BoundedShutdown ==
  /\ []((shutdownInProgress /\ exitCode = NotExited) =>
          /\ sinceSignal <= SafetyTimeoutMs
          /\ shutdownPc = "worker" => sinceSignal <= WorkerWaitMs)
  /\ [][(~shutdownInProgress /\ shutdownInProgress') =>
          stopMessageTo' = rebalanceWorker]_vars
  /\ (shutdownInProgress ~> exitCode # NotExited)

\* the worker never exited: it was posted the stop message and the safety
\* timeout ended the process 15 s after the signal
C17_Witness ==
  /\ exitCode = 1
  /\ sinceSignal = SafetyTimeoutMs
  /\ stopMessageTo # NoWorker
  /\ rebalanceWorker = stopMessageTo

\* C18: once the shutdown flag is set no loop begins new work: no rebalance
\* cycle, of any trigger, is started in a state where the flag is set
\* (every start of a cycle is preceded, without a suspension in between, by
\* the point where its runner would have to observe the flag).  The main
\* loop is taken at one of its suspension points: waiting, inside a cycle,
\* in the sleep of its catch block, or gone.
C18_NoCycleStartsAfterShutdown ==
  [][(shuttingDown /\ pc[Main] # "check") => CyclesStarted' = CyclesStarted]_vars

\* the markets of the response that are for the asset and belong to a
\* registered strategy, and those of them that pass both filters
Candidates ==
  {i \in 1..Len(yieldApi.markets) :
     /\ yieldApi.markets[i].token = AssetMint
     /\ MatchedStrategy(yieldApi.markets[i]) # NULL}

Survivors ==
  {i \in Candidates :
     LET m == yieldApi.markets[i]
     IN /\ m.totalDepositUsd >= MinTvlUsd
        /\ m.depositApy * ourDepositUsd
             <= MaxDilutionPct * (m.totalDepositUsd + ourDepositUsd)}

\* C19: the resolver never throws.  When the fetch succeeds and no market
\* matches a registered strategy (the empty list included) it returns none
\* with reason no_match; when some market matches, the price lookup
\* succeeds and the filters remove every candidate, none with reason
\* all_filtered; when the fetch or the price lookup fails, none with reason
\* api_fail.
C19_ResolverNeverThrows ==
  resolvedWinner # Pending =>
    /\ resolvedWinner # Thrown
    /\ (yieldApi.fetch = "ok" /\ Candidates = {}) =>
         resolvedWinner = NULL /\ rebalanceFallbackTotal["no_match"] = 1
    /\ (yieldApi.fetch = "ok" /\ Candidates # {} /\ yieldApi.price = "ok"
          /\ Survivors = {}) =>
         resolvedWinner = NULL /\ rebalanceFallbackTotal["all_filtered"] = 1
    /\ (yieldApi.fetch # "ok" \/ (Candidates # {} /\ yieldApi.price # "ok")) =>
         resolvedWinner = NULL /\ rebalanceFallbackTotal["api_fail"] = 1

\* two markets matched and both filters left nothing: one has too little
\* TVL, the other would be diluted by the vault's deposit
C19_Witness ==
  /\ resolvedWinner = NULL
  /\ rebalanceFallbackTotal["all_filtered"] = 1
  /\ Cardinality(Candidates) = 2
  /\ \E i \in Candidates : yieldApi.markets[i].totalDepositUsd < MinTvlUsd
  /\ \E i \in Candidates : yieldApi.markets[i].totalDepositUsd >= MinTvlUsd

FallbacksEmitted ==
  rebalanceFallbackTotal["no_match"] + rebalanceFallbackTotal["all_filtered"]
    + rebalanceFallbackTotal["api_fail"]

\* C20: a call of the resolver that returns no winner emits exactly one
\* increment of the fallback counter, under exactly one reason; a call that
\* returns a winner emits none, and nothing is emitted before the call.
C20_OneFallbackPerNoWinner ==
  /\ resolvedWinner = Pending => FallbacksEmitted = 0
  /\ resolvedWinner = NULL => FallbacksEmitted = 1
  /\ resolvedWinner \in StrategyIds =>
       FallbacksEmitted = 0 /\ Survivors # {}

\* a winner was returned although another candidate was filtered out
C20_Witness ==
  /\ resolvedWinner \in StrategyIds
  /\ FallbacksEmitted = 0
  /\ Survivors # Candidates

\* the candidates that pass both filters and carry the values the winner's
\* gauges were set to
WinnersAmongSurvivors ==
  {i \in Survivors :
     /\ MatchedStrategy(yieldApi.markets[i]) = resolvedWinner
     /\ yieldApi.markets[i].depositApy = yieldWinnerApy
     /\ yieldApi.markets[i].totalDepositUsd = yieldWinnerTvl}

\* C21: the selected candidate has a TVL at or above the floor and a
\* dilution apy - apy*tvl/(tvl + ourDeposit) at or below the ceiling, and
\* its APY is the highest among the candidates that pass both filters; when
\* the selection is reached, none is returned exactly when no candidate
\* passes both filters.
C21_WinnerPassesFiltersWithHighestApy ==
  /\ resolvedWinner \in StrategyIds =>
       /\ WinnersAmongSurvivors # {}
       /\ yieldWinnerTvl >= MinTvlUsd
       /\ yieldWinnerApy * ourDepositUsd
            <= MaxDilutionPct * (yieldWinnerTvl + ourDepositUsd)
       /\ \A j \in Survivors : yieldApi.markets[j].depositApy <= yieldWinnerApy
  /\ (resolvedWinner # Pending /\ yieldApi.fetch = "ok" /\ Candidates # {}
        /\ yieldApi.price = "ok") =>
       (resolvedWinner = NULL <=> Survivors = {})

\* a winner was selected although a candidate with a higher APY was listed,
\* which the dilution filter removed
C21_Witness ==
  /\ resolvedWinner \in StrategyIds
  /\ WinnersAmongSurvivors # {}
  /\ \E j \in Candidates \ Survivors :
       /\ yieldApi.markets[j].depositApy > yieldWinnerApy
       /\ yieldApi.markets[j].totalDepositUsd >= MinTvlUsd

\* the position of a strategy id in the lexicographic order of the ids
IdRank(id) == CHOOSE i \in 1..Len(Strategies) : Strategies[i] = id

\* the surviving candidates whose APY is the one of the winner
TopApy == {i \in Survivors : yieldApi.markets[i].depositApy = yieldWinnerApy}

\* C22: among the candidates of equal, highest APY the winner is the one
\* with the highest TVL and, among those, the one with the lexicographically
\* smallest strategy id, whatever the order in which the API listed them.
C22_TieBreakByTvlThenId ==
  resolvedWinner \in StrategyIds =>
    /\ \A j \in TopApy : yieldApi.markets[j].totalDepositUsd <= yieldWinnerTvl
    /\ \A j \in TopApy :
         yieldApi.markets[j].totalDepositUsd = yieldWinnerTvl =>
           IdRank(resolvedWinner)
             <= IdRank(MatchedStrategy(yieldApi.markets[j]))

\* the sum of the values of an allocation vector
VectorSum(allocations) ==
  SumSeq(MapSeq(allocations, LAMBDA a : a.positionValue))

\* the unpinned strategies at the end of the equal-share computation
EngineFree == (1..Len(engineInputs)) \ enginePinned

\* C23: conservation.  For every current allocation, every liquidity
\* constraint and either policy the target values of the strategies and of
\* the idle balance sum up to the current values exactly, one entry per
\* strategy plus one for idle.
C23_Conservation ==
  enginePc = "done" =>
    /\ Len(engineTargets) = Len(engineInputs) + 1
    /\ VectorSum(engineTargets) = EngineTotal

\* an equal-weight vector was returned with a strategy pinned and with a
\* division that left a remainder
C23_Witness ==
  /\ enginePc = "done"
  /\ engineWinner = NULL
  /\ enginePinned # {}
  /\ EngineFree # {}
  /\ (EngineTotal - LockedSum(engineInputs, enginePinned))
       % Cardinality(EngineFree) # 0

\* the equal share at the end of the equal-share computation
FinalShare == EqualShare(EngineTotal, engineInputs, enginePinned)

\* what the pool holds beyond the equal shares
FinalRemainder ==
  (EngineTotal - LockedSum(engineInputs, enginePinned))
    - FinalShare * Cardinality(EngineFree)

\* C24: liquidity respect under the equal-weight policy.  Every strategy
\* whose locked amount exceeds the equal share has its locked amount as its
\* target and is outside the redistribution pool; the rest of the funds is
\* split equally among the other strategies, the remainder of the division
\* going to the first of them.
C24_LockedAboveSharePinned ==
  (enginePc = "done" /\ engineWinner = NULL) =>
    \A i \in 1..Len(engineInputs) :
      /\ Locked(engineInputs[i]) > FinalShare <=> i \in enginePinned
      /\ i \in enginePinned =>
           engineTargets[i].positionValue = Locked(engineInputs[i])
      /\ i \in EngineFree =>
           /\ engineTargets[i].positionValue
                = FinalShare
                    + (IF \A j \in EngineFree : i <= j
                       THEN FinalRemainder ELSE 0)
           /\ FinalRemainder \in 0..(Cardinality(EngineFree) - 1)

\* two strategies were pinned in two successive passes: the second one only
\* after the share was recomputed without the first
C24_Witness ==
  /\ enginePc = "done"
  /\ engineWinner = NULL
  /\ Cardinality(enginePinned) = 2
  /\ engineIterations = 3
  /\ FinalShare > 0

\* the strategies of the call other than the winner
NonWinners ==
  {i \in 1..Len(engineInputs) : engineInputs[i].strategyId # engineWinner}

\* the scenario of the specification: A holds 100 of which 20 can be
\* withdrawn, B holds 100 and wins, nothing is idle
CapScenario ==
  <<StrategyInput("s3", 100, 20), StrategyInput("s2", 100, MAX_SAFE_INTEGER)>>

\* C25: winner-take-all with caps.  Under the yield policy a strategy other
\* than the winner that can release less than it holds keeps the difference,
\* one that can release all it holds has target 0, and the winner's target
\* is the total minus what stays with the others; in the scenario with A
\* capped at 20 of 100 and a total of 200 the targets are A = 80, B = 120.
C25_WinnerTakesAllButCapped ==
  /\ (enginePc = "done" /\ engineWinner # NULL) =>
       \A i \in 1..Len(engineInputs) :
         LET current == engineInputs[i].positionValue
             c == engineInputs[i].availableWithdrawableLiquidity
             target == engineTargets[i].positionValue
         IN /\ (i \in NonWinners /\ c < current) => target = current - c
            /\ (i \in NonWinners /\ c >= current) => target = 0
            /\ i \notin NonWinners =>
                 target = EngineTotal
                            - SumSet([j \in NonWinners |->
                                        engineTargets[j].positionValue],
                                     NonWinners)
  /\ LET targets == createYieldBasedAllocation(200, CapScenario, "s2")
     IN /\ targets[1].positionValue = 80
        /\ targets[2].positionValue = 120
        /\ targets[3].positionValue = 0

\* a winner was chosen while one of the other strategies could release only
\* a part of what it holds and another one all of it
C25_Witness ==
  /\ enginePc = "done"
  /\ engineWinner # NULL
  /\ \E i \in NonWinners :
       /\ engineInputs[i].availableWithdrawableLiquidity > 0
       /\ engineInputs[i].availableWithdrawableLiquidity
            < engineInputs[i].positionValue
       /\ engineTargets[i].positionValue > 0
  /\ \E i \in NonWinners :
       /\ engineInputs[i].positionValue > 0
       /\ engineTargets[i].positionValue = 0
  /\ \E i \in 1..Len(engineInputs) :
       /\ i \notin NonWinners
       /\ engineTargets[i].positionValue < EngineTotal

\* no strategy of the call is limited in what it can release
NoLiquidityConstraint ==
  \A i \in 1..Len(engineInputs) : Locked(engineInputs[i]) = 0

\* C26: idle drain.  Under the equal-weight policy without liquidity
\* constraints the target of the idle balance is 0 and the whole of the
\* funds is placed in the strategies, for every number of strategies from
\* one up and every current allocation: a strategy holding nothing gets its
\* share like the others, and a single strategy gets everything.
C26_IdleDrained ==
  (enginePc = "done" /\ engineWinner = NULL /\ NoLiquidityConstraint) =>
    LET n == Len(engineInputs)
    IN /\ engineTargets[n + 1].strategyId = IDLE_ID
       /\ engineTargets[n + 1].positionValue = 0
       /\ VectorSum(SubSeq(engineTargets, 1, n)) = EngineTotal
       /\ \A i \in 1..n :
            engineTargets[i].positionValue >= EngineTotal \div n
       /\ n = 1 => engineTargets[1].positionValue = EngineTotal

\* the idle balance was drained into several strategies, one of which held
\* nothing before
C26_Witness ==
  /\ enginePc = "done"
  /\ engineWinner = NULL
  /\ NoLiquidityConstraint
  /\ engineIdle > 0
  /\ Len(engineInputs) > 1
  /\ \E i \in 1..Len(engineInputs) :
       /\ engineInputs[i].positionValue = 0
       /\ engineTargets[i].positionValue > 0

\* the computation has not run more passes than there are strategies, and a
\* returned equal-weight vector rests on a fixed point
WithinPasses ==
  /\ engineIterations <= Len(engineInputs)
  /\ (enginePc = "done" /\ engineWinner = NULL) =>
       /\ OverShare(EngineTotal, engineInputs, enginePinned) = {}
       /\ enginePinned = PinnedSet(EngineTotal, engineInputs, {})

\* C27: the iterative equal-share computation terminates after at most N
\* passes for every input of N strategies: the pinned set only grows from
\* one pass to the next, and the computation stops at a fixed point where
\* no unpinned strategy is locked above the equal share.
C27_EqualShareTerminates ==
  /\ []WithinPasses
  /\ [][enginePinned \subseteq enginePinned']_vars
  /\ <>(enginePc = "done")

\* the computation used all the passes it may use: with three strategies
\* two were pinned one after the other and the third pass found none
C27_Witness ==
  /\ enginePc = "done"
  /\ engineWinner = NULL
  /\ engineIterations = Len(engineInputs)
  /\ Len(engineInputs) = 3
  /\ OverShare(EngineTotal, engineInputs, enginePinned) = {}

\* C28: idempotent re-run.  When the main loop runs two cycles one after the
\* other, with the same answer of the yield resolver and with no change of
\* the positions but the one the first cycle's confirmed operations made,
\* the second cycle has zero deltas, derives no operation and submits no
\* transaction.
C28_SecondCycleIsNoOp ==
  (loopCount = 1 /\ pc[Main] = "exec" /\ rebalanceTotal["deposit"] = 0) =>
    /\ newAllocations[Main] = prevAllocations[Main]
    /\ operations[Main] = <<>>
    /\ transactionIxs[Main] = <<>>

\* the operations of one kind among those executeRebalance derived
OperationsOfKind(kind) ==
  {i \in 1..Len(operations[Main]) : operations[Main][i].kind = kind}

\* three strategies, the first of which holds all the funds, at least one
\* unit per strategy; nothing is locked or idle, no winner; the target was
\* passed to executeRebalance
AllInFirstOfThree ==
  /\ pc[Main] = "exec"
  /\ enginePc = "done"
  /\ engineWinner = NULL
  /\ Len(engineInputs) = 3
  /\ engineInputs[1].positionValue >= 3
  /\ engineInputs[2].positionValue = 0
  /\ engineInputs[3].positionValue = 0
  /\ engineIdle = 0
  /\ NoLiquidityConstraint

\* the scenario of the specification: 100 in the first of three strategies
HundredInFirst ==
  <<StrategyInput("s3", 100, MAX_SAFE_INTEGER),
    StrategyInput("s4", 0, MAX_SAFE_INTEGER),
    StrategyInput("s2", 0, MAX_SAFE_INTEGER)>>

HundredCurrent ==
  <<Allocation("s3", 100), Allocation("s4", 0), Allocation("s2", 0),
    Allocation(IDLE_ID, 0)>>

HundredTarget == createYieldBasedAllocation(100, HundredInFirst, NULL)

\* C29 as stated: with three strategies holding [100, 0, 0], no locks and
\* the equal-weight policy, exactly two deposit operations and no withdrawal
\* operation are derived.
C29_TwoDepositsNoWithdrawal ==
  /\ AllInFirstOfThree =>
       /\ Cardinality(OperationsOfKind("deposit")) = 2
       /\ Cardinality(OperationsOfKind("withdraw")) = 0
  /\ Len(Deposits(HundredCurrent, HundredTarget)) = 2
  /\ Len(Withdrawals(HundredCurrent, HundredTarget)) = 0

\* C29, amended: with three strategies holding [100, 0, 0], no locks and the
\* equal-weight policy the target is a third each with idle 0, the remainder
\* of the division going to the first strategy ([34, 33, 33]); the first
\* strategy is above its target, so one withdrawal operation is derived for
\* it, followed by two deposit operations for the other two.
C29_OneWithdrawalTwoDeposits ==
  /\ AllInFirstOfThree =>
       LET total == engineInputs[1].positionValue
       IN /\ engineTargets[1].positionValue = (total \div 3) + (total % 3)
          /\ engineTargets[2].positionValue = total \div 3
          /\ engineTargets[3].positionValue = total \div 3
          /\ engineTargets[4].positionValue = 0
          /\ Len(operations[Main]) = 3
          /\ operations[Main][1].kind = "withdraw"
          /\ operations[Main][1].strategyId = engineInputs[1].strategyId
          /\ OperationsOfKind("deposit") = {2, 3}
  /\ MapSeq(HundredTarget, LAMBDA a : a.positionValue) = <<34, 33, 33, 0>>
  /\ Len(Withdrawals(HundredCurrent, HundredTarget)) = 1
  /\ Len(Deposits(HundredCurrent, HundredTarget)) = 2

\* the first of three strategies held everything and executeRebalance has
\* derived its operations from the equal-weight target
C29_Witness ==
  /\ AllInFirstOfThree
  /\ engineInputs[1].positionValue = MaxValue
  /\ Len(transactionIxs[Main]) = 3

\* a is b with some of its elements left out
RECURSIVE IsSubSeq(_, _)
IsSubSeq(a, b) ==
  \/ a = <<>>
  \/ /\ b # <<>>
     /\ IF Head(a) = Head(b) THEN IsSubSeq(Tail(a), Tail(b))
        ELSE IsSubSeq(a, Tail(b))

\* the operations whose kind the switch of executeRebalance knows
KnownKind(op) == op.strategyType \in AdapterKinds

\* the operations whose adapter does not give up
NeverSkipped(op) == op.strategyType \in AdapterKinds \ SkippingKinds

\* C30: when the Drift adapter fails to build its operation or the kind of a
\* strategy is unknown to the switch, that operation alone is skipped:
\* executeRebalance goes on to its submission loop, no instruction stands
\* for the skipped operation, every other operation has its instruction, in
\* the order of the operations, and the instructions are submitted in that
\* order.
C30_OnlyFailedOperationSkipped ==
  \A r \in Runners :
    pc[r] = "exec" =>
      /\ IsSubSeq(transactionIxs[r], SelectSeq(operations[r], KnownKind))
      /\ IsSubSeq(SelectSeq(operations[r], NeverSkipped), transactionIxs[r])
      /\ Len(txLog[r]) = nextIx[r]
      /\ nextIx[r] <= Len(transactionIxs[r])
      /\ \A k \in 1..Len(txLog[r]) :
           /\ txLog[r][k].index = k - 1
           /\ txLog[r][k].kind = transactionIxs[r][k].kind
           /\ txLog[r][k].strategyId = transactionIxs[r][k].strategyId
           /\ txLog[r][k].amount = transactionIxs[r][k].amount

\* the Drift adapter gave up on its withdrawal and the entry of the idle
\* balance fell to the default branch; the deposit that follows them was
\* built and confirmed
C30_Witness ==
  /\ pc[Main] = "exec"
  /\ \E i \in 1..Len(operations[Main]) :
       /\ operations[Main][i].strategyType = "driftEarn"
       /\ operations[Main][i].kind = "withdraw"
       /\ \A k \in 1..Len(transactionIxs[Main]) :
            transactionIxs[Main][k].strategyId
              # operations[Main][i].strategyId
  /\ \E i \in 1..Len(operations[Main]) :
       operations[Main][i].strategyType = "idle"
  /\ Len(transactionIxs[Main]) = 1
  /\ transactionIxs[Main][1].kind = "deposit"
  /\ Len(txLog[Main]) = 1


\* C31: sendAndConfirmOptimisedTx returns a signature only after
\* simulation, fee estimation, signing, submission and confirmation have
\* run in that order, and no step that failed is followed by a signature:
\* a failed step always ends in an Error raised to the caller.
C31_SignatureOnlyAfterAllStepsSucceeded ==
  /\ txResult = "signature" => txSteps = TxSteps /\ txFailed = {}
  /\ txFailed # {} /\ txPc \in {"returned", "raised"} => txResult = "error"


\* C33: a deposit-triggered cycle starts only when a notification is
\* delivered whose balance is strictly greater than the balance of the
\* previous notification; the first notification after subscribing and every
\* notification with an equal or lower balance only records its balance: no
\* runner moves, nothing of a cycle is written and no counter changes.
C33_DepositCycleOnlyOnIncrease ==
  [][/\ rebalanceTotal'["deposit"] # rebalanceTotal["deposit"]
        => /\ events # <<>>
           /\ previousBalance # NoBalance
           /\ Head(events) > previousBalance
     /\ (/\ events # <<>>
         /\ events' = Tail(events)
         /\ \/ previousBalance = NoBalance
            \/ Head(events) <= previousBalance)
        => /\ previousBalance' = Head(events)
           /\ UNCHANGED <<pc, cycleVars, metricVars, loopVars>>
    ]_vars

\* a notification with a balance above the minimum was delivered outside
\* the cooldown and started nothing: it was the first one, or its balance
\* was not above the previous one
C33_Witness ==
  /\ events = <<>>
  /\ previousBalance > DepositStrategyMinAmount
  /\ sinceLastExecution >= RebalanceLoopInterval
  /\ rebalanceTotal["deposit"] = 0
  /\ \A c \in Callbacks : pc[c] = "free"


\* C34: a manual trigger takes effect only while the main loop is inside
\* its wait: the resolver it calls is installed only during the wait, and a
\* manual cycle starts only in a step taken from the wait with the resolver
\* installed; a trigger that arrives during a cycle or the post-error sleep
\* finds no resolver, changes nothing and leaves nothing behind that could
\* start a manual cycle later.
C34_ManualTriggerOnlyDuringWait ==
  /\ [](manualTriggerResolve => pc[Main] = "wait")
  /\ [][rebalanceTotal'["manual"] # rebalanceTotal["manual"]
          => /\ pc[Main] = "wait"
             /\ manualTriggerResolve
             /\ pc'[Main] = "alloc"
             /\ ~manualTriggerResolve'
             /\ rebalanceTotal'["manual"] = rebalanceTotal["manual"] + 1
       ]_vars

\* a manual cycle was started from the wait and failed; the loop is in its
\* post-error sleep, where a trigger finds no resolver
C34_Witness ==
  /\ pc[Main] = "errsleep"
  /\ ~manualTriggerResolve
  /\ rebalanceTotal["manual"] = 1
  /\ rebalanceErrorsTotal = 1


\* C36: no instruction is ever built for the synthetic idle entry: whatever
\* its delta, and whichever operation the two loops derive for it, the
\* instruction list of a cycle holds no entry for it.
C36_NoInstructionForIdle ==
  \A r \in Runners : \A i \in 1..Len(transactionIxs[r]) :
    /\ transactionIxs[r][i].strategyId # IDLE_ID
    /\ transactionIxs[r][i].strategyType # "idle"

\* a cycle derived an operation for the idle entry beside operations for
\* strategies, and built instructions
C36_Witness ==
  /\ pc[Main] = "exec"
  /\ \E i \in 1..Len(operations[Main]) :
       /\ operations[Main][i].strategyId = IDLE_ID
       /\ operations[Main][i].kind = "withdraw"
  /\ \E i \in 1..Len(operations[Main]) :
       operations[Main][i].strategyId # IDLE_ID
  /\ transactionIxs[Main] # <<>>


\* C35: while the process runs at most one rebalance worker is alive, the
\* supervisor's reference is null exactly while none is alive and otherwise
\* refers to the one that is; a worker is created only by main() at startup
\* or by the "exit" handler of the previous worker after its sleep, when no
\* worker is alive.
C35_SingleWorker ==
  /\ [](exitCode = NotExited =>
          /\ Cardinality(workersAlive) <= 1
          /\ rebalanceWorker = NoWorker <=> workersAlive = {}
          /\ rebalanceWorker # NoWorker => workersAlive = {rebalanceWorker})
  /\ [][workersSpawned' # workersSpawned =>
          /\ workersAlive = {}
          /\ workersAlive' = {workersSpawned'}
          /\ \/ mainPc = "health" /\ mainPc' = "done"
             \/ /\ exitHandlerPc = "sleep"
                /\ exitHandlerPc' = "idle"
                /\ workersSpawned >= 1
       ]_vars

\* the first worker exited and its "exit" handler created the second, which
\* is the only one alive and the one the supervisor refers to
C35_Witness ==
  /\ exitCode = NotExited
  /\ workersSpawned = 2
  /\ workersAlive = {2}
  /\ rebalanceWorker = 2
  /\ rebalanceWorkerRestarts = 1


\* C40: graceful shutdown is idempotent.  Before the first signal no stop
\* message is posted and no timer of the shutdown is armed; once a shutdown
\* is in progress it stays so, and no later step, a second SIGINT or SIGTERM
\* included, posts a stop message again, re-arms the safety timer or the
\* wait for the worker, or restarts the time measured since the signal.
C40_ShutdownIdempotent ==
  /\ [](~shutdownInProgress =>
          /\ stopMessageTo = NoWorker
          /\ safetyTimeout = NoTimer
          /\ workerWait = NoTimer
          /\ shutdownPc = "none")
  /\ [][shutdownInProgress =>
          /\ shutdownInProgress'
          /\ shuttingDown'
          /\ stopMessageTo' = stopMessageTo
          /\ safetyTimeout' <= safetyTimeout
          /\ workerWait' <= workerWait
          /\ sinceSignal' >= sinceSignal
          /\ shutdownPc' # "none"
       ]_vars

\* a shutdown is in progress for some time: the stop message was posted and
\* both timers are running when a second signal may arrive
C40_Witness ==
  /\ exitCode = NotExited
  /\ shutdownInProgress
  /\ shutdownPc = "worker"
  /\ stopMessageTo = rebalanceWorker
  /\ rebalanceWorker # NoWorker
  /\ sinceSignal > 0
  /\ workerWait \in 1..(WorkerWaitMs - 1)
  /\ safetyTimeout \in 1..(SafetyTimeoutMs - 1)


\* C37: every pair matchMarketsToStrategies returns joins a fetched market
\* with a registered strategy that is a kaminoVault whose address is the
\* market's vault address or a jupiterLend for a market of the provider
\* jupiter, so a market that matches no registered strategy is in no pair;
\* the winner is the strategy of one of the pairs, hence registered and
\* never a driftEarn or kaminoMarket strategy.
C37_WinnerIsMatchedVaultOrLend ==
  selectedWinner # Pending =>
    /\ \A i \in 1..Len(matchedMarkets) :
         LET m == matchedMarkets[i]
         IN /\ \E j \in 1..Len(registryStrategies) :
                 registryStrategies[j] = m.strategy
            /\ \E k \in 1..Len(fetchedMarkets) : fetchedMarkets[k] = m.market
            /\ \/ /\ StrategyType(m.strategy) = "kaminoVault"
                  /\ m.market.vaultAddress = StrategyAddress(m.strategy)
               \/ /\ StrategyType(m.strategy) = "jupiterLend"
                  /\ m.market.provider = "jupiter"
    /\ selectedWinner # NULL =>
         /\ \E i \in 1..Len(matchedMarkets) :
              matchedMarkets[i].strategy = selectedWinner
         /\ StrategyType(selectedWinner) \in {"kaminoVault", "jupiterLend"}

\* a registered vault wins through its address while a strategy of another
\* type is registered and a fetched market was dropped
C37_Witness ==
  /\ selectedWinner = "s3"
  /\ \E j \in 1..Len(registryStrategies) :
       StrategyType(registryStrategies[j]) \in {"driftEarn", "kaminoMarket"}
  /\ Len(matchedMarkets) < Len(fetchedMarkets)


\* the position of the i-th strategy is above the minimum and its receipt
\* was last updated more than the interval before now
RefreshDue(i) ==
  /\ refreshReceipts[i].positionValue > RefreshMinPositionValue
  /\ refreshReceipts[i].lastUpdatedTs < RefreshNow - RefreshLoopInterval

\* the strategies, by their indices, that have an instruction in the list
RefreshBuilt ==
  {i \in 1..Len(refreshReceipts) :
     \E k \in 1..Len(refreshIxs) :
       refreshIxs[k].strategyId = refreshStrategies[i]}

RECURSIVE Flatten(_)
Flatten(batches) ==
  IF batches = <<>> THEN <<>>
  ELSE Head(batches).ixs \o Flatten(Tail(batches))

\* the batches hold at most two instructions each and are, one after the
\* other, the list of instructions from its start; only the last may have
\* failed, and then the iteration is over
RefreshBatchesInOrder ==
  /\ \A b \in 1..Len(refreshLog) :
       /\ Len(refreshLog[b].ixs) \in 1..RefreshBatchSize
       /\ refreshLog[b].status = "error" =>
            b = Len(refreshLog) /\ refreshPc # "submit"
  /\ Len(Flatten(refreshLog)) <= Len(refreshIxs)
  /\ Flatten(refreshLog) = SubSeq(refreshIxs, 1, Len(Flatten(refreshLog)))

\* a failing batch ends the iteration with an error counted and the loop
\* asleep; the loop is left only on shutdown
RefreshFailureKeepsLoop ==
  /\ refreshErrorsTotal' # refreshErrorsTotal =>
       /\ refreshErrorsTotal' = refreshErrorsTotal + 1
       /\ refreshLoopCount' = refreshLoopCount
       /\ refreshPc' = "sleep"
  /\ (refreshPc = "sleep" /\ refreshPc' # "sleep") =>
       refreshPc' = IF shuttingDown THEN "exited" ELSE "iterate"
  /\ refreshPc' = "exited" => shuttingDown'

C39_HarvestSpacingAndRetry ==
  /\ [](\A i \in 1..Len(harvestStarts) : \A j \in 1..Len(harvestStarts) :
          i < j =>
            harvestStarts[j] - harvestStarts[i] >= HarvestFeeLoopInterval)
  /\ [][/\ harvestErrorsTotal' # harvestErrorsTotal =>
             /\ lastHarvestTime' = lastHarvestTime
             /\ harvestLoopCount' = harvestLoopCount
             /\ harvestStarts' = harvestStarts
        /\ (/\ harvestPc = "check"
            /\ harvestPc' # "check"
            /\ harvestOutcome = "error"
            /\ ~shuttingDown)
             => harvestPc' = "harvest"
       ]_vars

\* a harvest succeeded, the next one failed and was attempted again at a
\* later poll, where it succeeded
C39_Witness ==
  /\ Len(harvestStarts) = 2
  /\ harvestErrorsTotal = 1
  /\ harvestLoopCount = 2
  /\ harvestOutcome = "success"


\* C32: a failure while the allocation is computed or while a batch is
\* submitted or confirmed aborts only the current cycle: the remaining
\* batches of that cycle are dropped, the main loop does not end and the
\* process does not exit (the loop ends only once shutdown is requested);
\* unless shutdown is requested the loop eventually starts another cycle
\* (as long as the run has cycles left), and every cycle computes its
\* current allocation from the positions and the idle balance as they are
\* on chain when it computes it.
C32_FailureAbortsOnlyCycle ==
  /\ [](pc[Main] = "exited" => shuttingDown)
  /\ [][/\ rebalanceErrorsTotal' # rebalanceErrorsTotal =>
             /\ pc[Main] \in {"alloc", "exec"}
             /\ pc'[Main] = "errsleep"
             /\ transactionIxs'[Main] = <<>>
             /\ exitCode' = exitCode
        /\ (pc[Main] = "alloc" /\ pc'[Main] = "exec") =>
             /\ Len(prevAllocations'[Main]) = Len(Strategies) + 1
             /\ \A i \in 1..Len(Strategies) :
                  /\ prevAllocations'[Main][i].strategyId = Strategies[i]
                  /\ prevAllocations'[Main][i].positionValue
                       = positionValue[Strategies[i]]
             /\ prevAllocations'[Main][Len(Strategies) + 1].positionValue
                  = idleBalance
       ]_vars
  /\ (pc[Main] = "errsleep" /\ CyclesStarted < MaxCycles)
       ~> (shuttingDown \/ pc[Main] = "alloc")

\* the first cycle moved funds with one batch and failed on a later one; the
\* loop went on and its second cycle has computed its allocation from the
\* positions the aborted cycle left behind
C32_Witness ==
  /\ rebalanceErrorsTotal = 1
  /\ txTotal["error"] = 1
  /\ txTotal["success"] >= 1
  /\ CyclesStarted = 2
  /\ pc[Main] = "exec"
  /\ nextIx[Main] = 0
  /\ ~shuttingDown
  /\ \E i \in 1..Len(Strategies) :
       /\ prevAllocations[Main][i].positionValue = positionValue[Strategies[i]]
       /\ positionValue[Strategies[i]] > 0

====
